---- MODULE Spec2Model ----
(***************************************************************************)
(* A model of snoowrap's lazy pagination engine (objects/Listing.ts,       *)
(* objects/More.ts) and of its request pipeline (request_handler.ts).      *)
(*                                                                         *)
(* The state machines of this module:                                      *)
(*   SpecListing  - one Listing, the fetchMore/fetchAll calls made on it   *)
(*                  and on the Listings those calls return;                *)
(*   SpecSteps    - a forward-paginated Listing fetched step by step from  *)
(*                  a server that holds a fixed sequence;                  *)
(*   SpecFlat, SpecTree - a comment Listing with a long stub, fetched      *)
(*                  with and without skipReplies;                          *)
(*   SpecRequest  - one requester and one oauthRequest call on it, under   *)
(*                  every configuration;                                   *)
(*   SpecConcurrent - one requester and several oauthRequest calls, which  *)
(*                  may overlap;                                          *)
(*   SpecBurst    - GET calls that overlap on a requester holding an       *)
(*                  access token only;                                     *)
(*   SpecRefresh  - GET calls that overlap on a requester whose access     *)
(*                  token is missing or about to expire;                   *)
(*   SpecExpand   - one expandReplies call on a content object;            *)
(*   SpecConstruct - the SnooWrapped constructor, on every combination of  *)
(*                  options;                                               *)
(*   SpecWrapped  - a SnooWrapped client, the content objects it hands     *)
(*                  out, and the calls made on them.                       *)
(*                                                                         *)
(* Each function is modelled by what its body does.  Listing.fetchMore     *)
(* hands its result to this._r._promiseWrap, taken here as the wrapper it  *)
(* is with proxies disabled (the identity); the outcome of the request a   *)
(* Listing or a More sends is the server's answer or a failure.  Promises  *)
(* are the native ones: no other Promise is imported by the sources.       *)
(*                                                                         *)
(* JavaScript objects that the code may alias are kept in a heap and are   *)
(* reached through references, so that "the original is not mutated" is   *)
(* a property of the code and not of the notation.                         *)
(***************************************************************************)
EXTENDS Integers, Sequences, FiniteSets, TLC

VARIABLES
  heap,         \* the Listing objects and the objects they reference
  pc,           \* position of the running fetchMore call
  thisRef,      \* the Listing the current (recursive) fetchMore runs on
  options,      \* the options of the current (recursive) fetchMore
  origRef,      \* the Listing the caller invoked fetchMore on
  callOptions,  \* the options the caller passed
  snapshot,     \* contents of the caller's Listing when the call began
  pageReq,      \* the page request in flight (_fetchMoreRegular)
  chunkReq,     \* the id chunks requested by More.fetchMore / fetchTree
  chunkRes,     \* the chunk responses received so far
  moreResult,   \* what More.fetchMore resolved with
  arrivals,     \* the chunk requests answered so far, in order of completion
  requests,     \* transport requests issued by the current call
  now,          \* Date.now(), in milliseconds
  client,       \* the requester's fields (tokens, rate window, request slot)
  _config,      \* the requester's configuration
  reqs,         \* the oauthRequest calls made on the requester
  lastDispatch, \* when the transport last received an API request
  expand,       \* the running expandReplies call
  constructorArgs, \* the options the SnooWrapped constructor was given
  snooWrapped,  \* the SnooWrapped client (its private fields)
  contents,     \* the content objects made from that client
  op            \* the running call on a content object

listingVars == <<heap, pc, thisRef, options, origRef, callOptions, snapshot,
                 pageReq, chunkReq, chunkRes, moreResult, arrivals, requests>>

requestVars == <<now, client, _config, reqs, lastDispatch>>

contentVars == <<expand, constructorArgs, snooWrapped, contents, op>>

vars == <<listingVars, requestVars, contentVars>>

-----------------------------------------------------------------------------
(* Values *)

\* JavaScript null and undefined, as cursor values; a cursor string is a
\* positive number (the position of the item it names).
Null == 0
Undef == -1
\* The amount fetchAll passes.
Infinity == 1000000
MAX_API_INFO_AMOUNT == 100
MAX_API_MORECHILDREN_AMOUNT == 20

\* Bounds of the model.
ServerLen == 4     \* items the server holds for a regular Listing
MaxPage == 2       \* largest page the server answers with
NumComments == 3   \* comments in the thread of a comment Listing
MaxCount == 3      \* the request counter saturates here
LongThread == 201  \* child ids on the stub of a long comment thread

Min(a, b) == IF a < b THEN a ELSE b
Max(a, b) == IF a > b THEN a ELSE b

\* amount - n, in JavaScript numbers (Infinity - n = Infinity)
Minus(amount, n) == IF amount = Infinity THEN Infinity ELSE amount - n

Truthy(v) == v > 0
Nullish(v) == v = Null \/ v = Undef

\* Array.prototype.slice(from) and slice(from, to) on 0-based indices
SliceFrom(s, from) == SubSeq(s, Min(from, Len(s)) + 1, Len(s))
Slice(s, from, to) == SubSeq(s, Min(from, Len(s)) + 1, Min(to, Len(s)))

Range(lo, hi) == [i \in 1..Max(hi - lo + 1, 0) |-> lo + i - 1]

RECURSIVE Flatten(_)
Flatten(ss) == IF ss = <<>> THEN <<>> ELSE Head(ss) \o Flatten(Tail(ss))

-----------------------------------------------------------------------------
(* The heap *)

Slots == {"root", "result", "work"}
NoRef == "null"
EmptyChildrenRef == "emptyChildren"

FreeListing ==
  [items |-> <<>>, query |-> NoRef, cachedLookahead |-> NoRef, more |-> NoRef,
   uri |-> FALSE, isCommentList |-> FALSE]
FreeQuery == [before |-> Undef, after |-> Undef]
\* export const emptyChildren = new More({children: []})
emptyChildren == [children |-> <<>>]

EmptyHeap ==
  [listing |-> [s \in Slots |-> FreeListing],
   query |-> [s \in Slots |-> FreeQuery],
   lookahead |-> [s \in Slots |-> <<>>],
   more |-> [s \in Slots \cup {EmptyChildrenRef} |-> emptyChildren]]

Exists(h, s) == h.listing[s].query # NoRef

QueryOf(h, s) ==
  IF h.listing[s].query = NoRef THEN FreeQuery ELSE h.query[h.listing[s].query]
HasLookahead(h, s) == h.listing[s].cachedLookahead # NoRef
LookaheadOf(h, s) ==
  IF HasLookahead(h, s) THEN h.lookahead[h.listing[s].cachedLookahead] ELSE <<>>
HasMore(h, s) == h.listing[s].more # NoRef
ChildrenOf(h, s) ==
  IF HasMore(h, s) THEN h.more[h.listing[s].more].children ELSE <<>>

\* Everything an observer can read from the Listing in slot s.
Deep(h, s) ==
  [items |-> h.listing[s].items,
   before |-> QueryOf(h, s).before,
   after |-> QueryOf(h, s).after,
   hasLookahead |-> HasLookahead(h, s),
   lookahead |-> LookaheadOf(h, s),
   hasMore |-> HasMore(h, s),
   children |-> ChildrenOf(h, s),
   uri |-> h.listing[s].uri,
   isCommentList |-> h.listing[s].isCommentList]

\* new Listing(...) placed in slot s, owning its own _query, lookahead, More.
Store(h, s, d) ==
  [listing |-> [h.listing EXCEPT ![s] =
      [items |-> d.items, query |-> s,
       cachedLookahead |-> IF d.hasLookahead THEN s ELSE NoRef,
       more |-> IF d.hasMore THEN s ELSE NoRef,
       uri |-> d.uri, isCommentList |-> d.isCommentList]],
   query |-> [h.query EXCEPT ![s] = [before |-> d.before, after |-> d.after]],
   lookahead |-> [h.lookahead EXCEPT ![s] = d.lookahead],
   more |-> [h.more EXCEPT ![s] = [children |-> d.children]]]

\* The slot s holds no object any more.
Free(h, s) ==
  [listing |-> [h.listing EXCEPT ![s] = FreeListing],
   query |-> [h.query EXCEPT ![s] = FreeQuery],
   lookahead |-> [h.lookahead EXCEPT ![s] = <<>>],
   more |-> [h.more EXCEPT ![s] = emptyChildren]]

-----------------------------------------------------------------------------
(* Listing *)

\* An isFinished that is content with one null cursor.
isFinished_oneCursor(h, s) ==
  IF h.listing[s].isCommentList
  THEN /\ LookaheadOf(h, s) = <<>>
       /\ HasMore(h, s)
       /\ ChildrenOf(h, s) = <<>>
  ELSE \/ ~h.listing[s].uri
       \/ (QueryOf(h, s).after = Null \/ QueryOf(h, s).before = Null)

\* get isFinished()
isFinished(h, s) ==
  IF h.listing[s].isCommentList
  THEN /\ LookaheadOf(h, s) = <<>>
       /\ HasMore(h, s)
       /\ ChildrenOf(h, s) = <<>>
  ELSE \/ ~h.listing[s].uri
       \/ (QueryOf(h, s).after = Null /\ QueryOf(h, s).before = Null)

\* A _clone whose copy shares the _query object of the original.
_clone_sharedQuery(h, s) ==
  LET l == h.listing[s]
      la == IF l.cachedLookahead = NoRef THEN NoRef ELSE "work"
      mo == IF l.more = NoRef THEN NoRef ELSE "work"
  IN [listing |-> [h.listing EXCEPT !["work"] =
        [items |-> l.items, query |-> l.query, cachedLookahead |-> la,
         more |-> mo, uri |-> l.uri, isCommentList |-> l.isCommentList]],
      query |-> h.query,
      lookahead |-> [h.lookahead EXCEPT !["work"] =
        IF la = NoRef THEN <<>> ELSE h.lookahead[l.cachedLookahead]],
      more |-> [h.more EXCEPT !["work"] =
        IF mo = NoRef THEN emptyChildren ELSE h.more[l.more]]]

\* A _clone that hands its More object to the copy instead of cloning it.
_clone_sharedMore(h, s) ==
  LET l == h.listing[s]
      la == IF l.cachedLookahead = NoRef THEN NoRef ELSE "work"
  IN [listing |-> [h.listing EXCEPT !["work"] =
        [items |-> l.items, query |-> "work", cachedLookahead |-> la,
         more |-> l.more, uri |-> l.uri, isCommentList |-> l.isCommentList]],
      query |-> [h.query EXCEPT !["work"] = h.query[l.query]],
      lookahead |-> [h.lookahead EXCEPT !["work"] =
        IF la = NoRef THEN <<>> ELSE h.lookahead[l.cachedLookahead]],
      more |-> h.more]

\* _clone(): a new Listing (in the work slot) with the same items, a copy of
\* _query, a copy of _cachedLookahead and a clone of _more.
_clone(h, s) ==
  LET l == h.listing[s]
      la == IF l.cachedLookahead = NoRef THEN NoRef ELSE "work"
      mo == IF l.more = NoRef THEN NoRef ELSE "work"
  IN [listing |-> [h.listing EXCEPT !["work"] =
        [items |-> l.items, query |-> "work", cachedLookahead |-> la,
         more |-> mo, uri |-> l.uri, isCommentList |-> l.isCommentList]],
      query |-> [h.query EXCEPT !["work"] = h.query[l.query]],
      lookahead |-> [h.lookahead EXCEPT !["work"] =
        IF la = NoRef THEN <<>> ELSE h.lookahead[l.cachedLookahead]],
      more |-> [h.more EXCEPT !["work"] =
        IF mo = NoRef THEN emptyChildren ELSE h.more[l.more]]]

\* _empty(): splice(0, length) on the Listing in slot s
_empty(h, s) == [h EXCEPT !.listing[s].items = <<>>]

\* fetchMore's first test: nothing to do
fetchMoreReturnsEarly_ignoresFinished(h, s, o) == o.amount <= 0

fetchMoreReturnsEarly(h, s, o) == o.amount <= 0 \/ isFinished(h, s)

\* the lookahead branch: if (this._cachedLookahead), true of every array
TakesLookahead(h, s, o) ==
  /\ ~fetchMoreReturnsEarly(h, s, o)
  /\ HasLookahead(h, s)

\* the lookahead branch of fetchMore: move up to amount items out of the
\* clone's buffer; the recursive call is made with a number
fetchMoreLookahead(h, s, o) ==
  LET c == _clone(h, s)
      ref == c.listing["work"].cachedLookahead
      buf == c.lookahead[ref]
      n == Min(o.amount, Len(buf))
  IN [c EXCEPT !.lookahead[ref] = SliceFrom(buf, n),
               !.listing["work"].items = @ \o Slice(buf, 0, n)]

\* A merge that pushes whatever the direction of pagination is.
mergePage_alwaysPush(h, s, o, resp) ==
  LET c0 == _clone(h, s)
      c1 == IF o.append THEN c0 ELSE _empty(c0, "work")
      q == c1.listing["work"].query
  IN [c1 EXCEPT !.listing["work"].items = @ \o resp.items,
                !.query[q].before = Null,
                !.query[q].after = resp.after]

\* A merge that leaves the `after` cursor where it was.
mergePage_staleCursor(h, s, o, resp) ==
  LET c0 == _clone(h, s)
      c1 == IF o.append THEN c0 ELSE _empty(c0, "work")
      q == c1.listing["work"].query
  IN [c1 EXCEPT !.listing["work"].items = @ \o resp.items,
                !.query[q].before = Null]

\* A merge that writes the cursor it pages with and leaves the other one.
mergePage_keepsOtherCursor(h, s, o, resp) ==
  LET c0 == _clone(h, s)
      c1 == IF o.append THEN c0 ELSE _empty(c0, "work")
      q == c1.listing["work"].query
  IN IF Truthy(c1.query[q].before)
     THEN [c1 EXCEPT !.listing["work"].items = resp.items \o @,
                     !.query[q].before = resp.before]
     ELSE [c1 EXCEPT !.listing["work"].items = @ \o resp.items,
                     !.query[q].after = resp.after]

\* the .then() of _fetchMoreRegular up to the recursive call
mergePage(h, s, o, resp) ==
  LET c0 == _clone(h, s)
      c1 == IF o.append THEN c0 ELSE _empty(c0, "work")
      q == c1.listing["work"].query
      c2 == IF Truthy(c1.query[q].before)
            THEN [c1 EXCEPT !.listing["work"].items = resp.items \o @,
                            !.query[q].before = resp.before,
                            !.query[q].after = Null]
            ELSE [c1 EXCEPT !.listing["work"].items = @ \o resp.items,
                            !.query[q].before = Null,
                            !.query[q].after = resp.after]
      \* cloned._more = cloned._more || response._more || emptyChildren
      c3 == IF ~h.listing[s].isCommentList THEN c2
            ELSE IF c2.listing["work"].more # NoRef THEN c2
            ELSE IF resp.hasMore
                 THEN [c2 EXCEPT !.listing["work"].more = "work",
                                 !.more["work"] = [children |-> resp.children]]
                 ELSE [c2 EXCEPT !.listing["work"].more = EmptyChildrenRef]
      all == c3.listing["work"].items
  IN IF h.listing[s].isCommentList /\ Len(resp.items) > o.amount
     THEN \* cloned._cachedLookahead = Array.from(cloned.splice(options.amount))
          [c3 EXCEPT !.listing["work"].items = Slice(all, 0, o.amount),
                     !.listing["work"].cachedLookahead = "work",
                     !.lookahead["work"] = SliceFrom(all, o.amount)]
     ELSE c3

\* A merge that leaves the child ids on the clone's stub.
mergeComments_keepsChildren(h, s, o, moreComments) ==
  LET c0 == _clone(h, s)
      c1 == IF o.append THEN c0 ELSE _empty(c0, "work")
  IN [c1 EXCEPT !.listing["work"].items = @ \o moreComments]

\* the .then() of _fetchMoreComments
mergeComments(h, s, o, moreComments) ==
  LET c0 == _clone(h, s)
      c1 == IF o.append THEN c0 ELSE _empty(c0, "work")
      m == c1.listing["work"].more
  IN [c1 EXCEPT !.listing["work"].items = @ \o moreComments,
                !.more[m].children = SliceFrom(@, o.amount)]

-----------------------------------------------------------------------------
(* More *)

\* getNextIdSlice
getNextIdSlice(children, startIndex, desiredAmount, limit) ==
  Slice(children, startIndex, startIndex + Min(desiredAmount, limit))

\* The chunks More.fetchMore requests with skipReplies, in request order.
RECURSIVE FlatChunks(_, _, _)
FlatChunks(children, amount, startIndex) ==
  IF amount <= 0 \/ startIndex >= Len(children) THEN <<>>
  ELSE LET ids == getNextIdSlice(children, startIndex, amount, MAX_API_INFO_AMOUNT)
       IN <<ids>> \o FlatChunks(children, Minus(amount, Len(ids)), startIndex + Len(ids))

NotYet == <<-1>>

\* A fetchTree that asks for every chunk at once, as the flat strategy does.
RECURSIVE fetchTreeRequests_allAtOnce(_, _, _)
fetchTreeRequests_allAtOnce(children, amount, startIndex) ==
  IF amount <= 0 \/ startIndex >= Len(children) THEN <<>>
  ELSE LET ids == Slice(children, startIndex,
                        startIndex + Min(amount, MAX_API_MORECHILDREN_AMOUNT))
       IN <<ids>> \o fetchTreeRequests_allAtOnce(children, Minus(amount, Len(ids)),
                                                 startIndex + Len(ids))

\* The requests fetchTree has sent when it returns its promise: the one for
\* the next chunk of up to 20 ids.
fetchTreeRequests(children, amount, startIndex) ==
  <<getNextIdSlice(children, startIndex, amount, MAX_API_MORECHILDREN_AMOUNT)>>

\* A join that concatenates the answers in the order they arrived in.
promiseAll_byCompletion(results, order) ==
  Flatten([k \in 1..Len(order) |-> results[order[k]]])

\* Promise.all([promiseForThisBatch, promiseForRemainingItems]).then(flatten),
\* over the whole recursion: the answers in the order of the requests
promiseAll(results, order) == Flatten(results)

\* What the tree endpoint may answer with for a chunk of ids.
\* A comment or a More of the top level has the link as its parent (written
\* Null); CommentOn and MoreOn are a reply to the comment `parent` and the
\* stub of the replies of `parent`.  A descendant of the comment id, which is
\* no child id of the stub, is written Descendant(id).
Comment(id) == [name |-> "Comment", id |-> id, parent_id |-> Null]
MoreThing(id) == [name |-> "More", id |-> id, parent_id |-> Null]
CommentOn(parent, id) == [name |-> "Comment", id |-> id, parent_id |-> parent]
MoreOn(parent, id) == [name |-> "More", id |-> id, parent_id |-> parent]
Descendant(id) == id + Infinity
TreeThings(ids) ==
  { <<>>, <<Comment(ids[1])>>, <<MoreThing(ids[1])>>,
    <<Comment(ids[1]), MoreThing(ids[1])>>,
    <<Comment(ids[1]), CommentOn(ids[1], Descendant(ids[1]))>>,
    <<Comment(ids[1]), MoreOn(ids[1], Descendant(ids[1]))>> }

\* buildRepliesTree reads childMap inside the expression that initializes
\* it: the filter callback runs, and throws, for the first Comment.
buildRepliesTreeThrows(things) ==
  \E i \in 1..Len(things) : things[i].name = "Comment"

\* buildRepliesTree(childList): the error, or the list it returns, which is
\* the one it was given.  replies[i] and stub[i] are the items and the More
\* of childList[i].replies after the call: the chain works on spread copies
\* of the children and of their replies Listings, no Comment is left in it
\* when no error is thrown, and nothing is pushed or set.
buildRepliesTree(things) ==
  [threw |-> buildRepliesTreeThrows(things),
   childList |-> things,
   replies |-> [i \in 1..Len(things) |-> <<>>],
   stub |-> [i \in 1..Len(things) |-> Null]]

\* Nested stubs that expand without an error.
childMoresThrow_never(things) == FALSE

\* childMores are spread copies of the More objects: they have no fetchTree.
childMoresThrow(things) ==
  \E i \in 1..Len(things) : things[i].name = "More"

\* concat(resultTrees, ...): the things of a response as items of a Listing;
\* a More object among them is written as the negative of its id
resultTrees(things) ==
  [i \in 1..Len(things) |->
     IF things[i].name = "More" THEN 0 - things[i].id ELSE things[i].id]

-----------------------------------------------------------------------------
(* The server's answers *)

\* A page of a regular Listing: the k items after (before) the cursor, and
\* a continuation cursor that the server may or may not set to null.
ForwardPages(req) ==
  LET c == IF Nullish(req.after) THEN 0 ELSE req.after
  IN { [items |-> Range(c + 1, c + k), before |-> Null, after |-> a,
        hasMore |-> FALSE, children |-> <<>>] :
         <<k, a>> \in { <<k, a>> \in (0..Min(MaxPage, ServerLen - c)) \X (0..ServerLen) :
                          a = Null \/ (a = c + k /\ a >= 1) } }

BackwardPages(req) ==
  LET c == req.before
  IN { [items |-> Range(c - k, c - 1), before |-> b, after |-> Null,
        hasMore |-> FALSE, children |-> <<>>] :
         <<k, b>> \in { <<k, b>> \in (0..Min(MaxPage, c - 1)) \X (0..ServerLen) :
                          b = Null \/ b = c - k } }

\* The replies Listing a comment page carries: k comments, and maybe a More
\* with the ids of the rest.
CommentPages ==
  { [items |-> Range(1, k), before |-> Null, after |-> Null,
     hasMore |-> m, children |-> IF m THEN Range(k + 1, NumComments) ELSE <<>>] :
       <<k, m>> \in (0..NumComments) \X BOOLEAN }

\* A server that holds the fixed sequence 1..ServerLen and answers a forward
\* request with the next items, one at least, and with a null cursor on the
\* page that holds the last one.
FixedPages(req) ==
  LET c == IF Nullish(req.after) THEN 0 ELSE req.after
  IN { [items |-> Range(c + 1, c + k), before |-> Null,
        after |-> IF c + k = ServerLen THEN Null ELSE c + k,
        hasMore |-> FALSE, children |-> <<>>] :
         k \in Min(1, ServerLen - c)..Min(MaxPage, ServerLen - c) }

Pages(req) ==
  IF req.isCommentList THEN CommentPages
  ELSE IF Truthy(req.before) THEN BackwardPages(req)
  ELSE ForwardPages(req)

\* The comments the bulk endpoint returns for the ids of a chunk.
InfoAnswers(ids) == { ids, Tail(ids) }

-----------------------------------------------------------------------------
(* Initial Listings *)

Plain(items, before, after, uri) ==
  [items |-> items, before |-> before, after |-> after,
   hasLookahead |-> FALSE, lookahead |-> <<>>, hasMore |-> FALSE,
   children |-> <<>>, uri |-> uri, isCommentList |-> FALSE]

Comments(items, hasMore, children, uri) ==
  [items |-> items, before |-> Undef, after |-> Undef,
   hasLookahead |-> FALSE, lookahead |-> <<>>, hasMore |-> hasMore,
   children |-> children, uri |-> uri, isCommentList |-> TRUE]

RootListings ==
  { Plain(Range(1, 2), Null, 2, TRUE),              \* a first page, more to come
    Plain(Range(1, 2), Null, Null, TRUE),           \* a complete Listing
    Plain(Range(ServerLen - 1, ServerLen), ServerLen - 1, Null, TRUE),  \* fetched with `before`
    Plain(<<>>, Undef, Undef, TRUE),                \* a placeholder, not fetched yet
    Plain(<<1>>, Undef, Undef, FALSE),              \* no source URI
    Comments(<<1>>, TRUE, Range(2, NumComments), FALSE),  \* comments and a More stub
    Comments(<<>>, FALSE, <<>>, TRUE),              \* an empty replies Listing
    Comments(<<1>>, TRUE, <<>>, FALSE) }            \* comments, stub drained

-----------------------------------------------------------------------------
(* The requester: construction and configuration *)

\* constants.ts
IDEMPOTENT_HTTP_VERBS == {"delete", "get", "head", "put"}
MAX_TOKEN_LATENCY == 10000

\* Bounds of the model.
NumRequests == 2      \* oauthRequest calls made on the requester
StartTime == 100000   \* Date.now() when the first call is made
RequestDelayMs == 1000 \* a requestDelay the user may configure
TokenLifeLeft == 5000 \* what is left of a cached token about to expire
ExpiresIn == 3600     \* expires_in of a token response, in seconds
ResetSeconds == 2     \* x-ratelimit-reset of a response, in seconds

\* createConfig(): the defaults
createConfig ==
  [requestDelay |-> 0,
   requestTimeout |-> 30000,
   continueAfterRatelimitError |-> FALSE,
   retryErrorCodes |-> {502, 503, 504, 522},
   maxRetryAttempts |-> 3]

\* new snoowrap({accessToken, refreshToken, ...}).  null is 0: every test the
\* code makes on these fields is a numeric comparison or a truthiness test,
\* and ToNumber(null) = 0.  _nextRequestTimestamp starts at -Infinity.
Snoowrap(accessToken, refreshToken) ==
  [accessToken |-> accessToken,
   refreshToken |-> refreshToken,
   tokenExpiration |-> Null,
   scope |-> Null,
   ratelimitRemaining |-> Null,
   ratelimitExpiration |-> Null,
   _nextRequestTimestamp |-> 0 - Infinity]

Requests == 1..NumRequests

\* an oauthRequest call that has not been made yet
NoRequest ==
  [pc |-> "new", method |-> "get", frames |-> <<>>, wake |-> 0, sentAt |-> 0,
   bearer |-> Null, bearerExp |-> Null,
   error |-> [name |-> "none", statusCode |-> 0, timeUntilExpiry |-> 0],
   responses |-> 0, status |-> 0,
   dispatches |-> 0, tokenRequests |-> 0, transient |-> 0, reauths |-> 0,
   redispatches |-> 0, gateUntil |-> 0, stale401 |-> FALSE,
   tokenError |-> FALSE]

\* JavaScript values of an option or a field: undefined, the empty string, a
\* string, and a value that is no string
Undefined == "undefined"
EmptyString == ""
NotAString == "number"

\* the replies of an object that has none
NoReplies == Comments(<<>>, TRUE, <<>>, FALSE)

\* new SnooWrapped() without an argument
NoArgs ==
  [given |-> FALSE, userAgent |-> Undefined, accessToken |-> Undefined,
   clientId |-> Undefined, clientSecret |-> Undefined,
   refreshToken |-> Undefined, username |-> Undefined, password |-> Undefined]

\* the private fields before the constructor has run
NotConstructed ==
  [built |-> FALSE, thrown |-> "none", userAgent |-> Undefined,
   clientId |-> Undefined, clientSecret |-> Undefined,
   refreshToken |-> Undefined, accessToken |-> Undefined,
   tokenExpiration |-> Undef, scope |-> Undefined,
   username |-> Undefined, password |-> Undefined]

\* the data of an object that was not fetched: { name }
NameOnly(name) ==
  [name |-> name, title |-> Undefined, nsfw |-> Undefined,
   locked |-> Undefined, hidden |-> Undefined, spoiler |-> Undefined,
   stickied |-> Undefined]

\* new Submission(data, sW), new Comment(data, sW), new RedditUser(data, sW):
\* this.data and the public properties the constructors assign (title stands
\* for the fetched fields of the three classes; no property `locked` is
\* assigned)
NewContent(type, data) ==
  [type |-> type, data |-> data, name |-> data.name, title |-> data.title,
   nsfw |-> data.nsfw, hidden |-> data.hidden, spoiler |-> data.spoiler,
   stickied |-> data.stickied, locked |-> Undefined]

\* the object of a call that was not made
NoContent == NewContent("none", NameOnly(Undefined))

\* no call is running on a content object
NoOp ==
  [pc |-> "idle", method |-> "none", target |-> 0, stage |-> 0,
   token |-> Undefined, grant |-> "none", data |-> "none", error |-> "none",
   value |-> 0, before |-> NoContent, tokenRequests |-> 0, lastExpiry |-> 0]

\* no expandReplies call was made
NoExpand ==
  [pc |-> "idle", limit |-> 0, depth |-> 0, fetched |-> NoReplies,
   value |-> NoReplies, error |-> "none", fetchMoreCalls |-> 0, requests |-> 0]

\* no SnooWrapped client was constructed, and no content object
ContentIdle ==
  /\ expand = NoExpand
  /\ constructorArgs = NoArgs
  /\ snooWrapped = NotConstructed
  /\ contents = <<>>
  /\ op = NoOp

\* a requester nobody uses
RequestIdle ==
  /\ now = StartTime
  /\ client = Snoowrap(Null, 1)
  /\ _config = createConfig
  /\ reqs = [i \in Requests |-> NoRequest]
  /\ lastDispatch = 0

Amounts == {0, 1, 2, Infinity}

NoOptions == [amount |-> 0, append |-> TRUE, skipReplies |-> FALSE]
NoPageReq == [before |-> Undef, after |-> Undef, isCommentList |-> FALSE]

\* No call is running: nothing is remembered of the previous one.
Idle ==
  /\ ContentIdle
  /\ pc = "idle"
  /\ thisRef = NoRef
  /\ origRef = NoRef
  /\ options = NoOptions
  /\ callOptions = NoOptions
  /\ snapshot = Deep(EmptyHeap, "root")
  /\ pageReq = NoPageReq
  /\ chunkReq = <<>>
  /\ chunkRes = <<>>
  /\ moreResult = <<>>
  /\ arrivals = <<>>
  /\ requests = 0

InitListing ==
  /\ \E d \in RootListings : heap = Store(EmptyHeap, "root", d)
  /\ Idle
  /\ RequestIdle

Count(n) == Min(n, MaxCount)

-----------------------------------------------------------------------------
(* fetchMore *)

\* listing.fetchMore({amount, skipReplies, append}) on a Listing the caller holds
Call(s, amount, append, skipReplies) ==
  /\ pc = "idle"
  /\ Exists(heap, s)
  /\ pc' = "fetchMore"
  /\ thisRef' = s
  /\ origRef' = s
  /\ options' = [amount |-> amount, append |-> append, skipReplies |-> skipReplies]
  /\ callOptions' = options'
  /\ snapshot' = Deep(heap, s)
  /\ requests' = 0
  /\ UNCHANGED <<heap, pageReq, chunkReq, chunkRes, moreResult>>
  /\ UNCHANGED arrivals
  /\ UNCHANGED <<requestVars, contentVars>>

\* amount <= 0 || this.isFinished: resolve with a clone (emptied if !append)
FetchMoreFinished ==
  /\ pc = "fetchMore"
  /\ fetchMoreReturnsEarly(heap, thisRef, options)
  /\ heap' = IF options.append THEN _clone(heap, thisRef)
             ELSE _empty(_clone(heap, thisRef), "work")
  /\ thisRef' = "work"
  /\ pc' = "done"
  /\ UNCHANGED <<options, origRef, callOptions, snapshot, pageReq, chunkReq,
                 chunkRes, moreResult, requests>>
  /\ UNCHANGED arrivals
  /\ UNCHANGED <<requestVars, contentVars>>

\* if (this._cachedLookahead): take from the buffer and call fetchMore again,
\* synchronously, on the clone, with the number that is left
FetchMoreLookahead ==
  /\ pc = "fetchMore"
  /\ TakesLookahead(heap, thisRef, options)
  /\ heap' = fetchMoreLookahead(heap, thisRef, options)
  /\ thisRef' = "work"
  /\ options' = [amount |-> Minus(options.amount,
                                  Min(options.amount, Len(LookaheadOf(heap, thisRef)))),
                 append |-> TRUE, skipReplies |-> FALSE]
  /\ UNCHANGED <<pc, origRef, callOptions, snapshot, pageReq, chunkReq,
                 chunkRes, moreResult, requests>>
  /\ UNCHANGED arrivals
  /\ UNCHANGED <<requestVars, contentVars>>

\* An empty buffer is still truthy: the branch is taken again with the same
\* amount, without any await, until the call stack is exhausted; the
\* RangeError rejects the call.
StackOverflow ==
  /\ pc = "fetchMore"
  /\ TakesLookahead(heap, thisRef, options)
  /\ LookaheadOf(heap, thisRef) = <<>>
  /\ pc' = "rejected"
  /\ UNCHANGED <<heap, thisRef, options, origRef, callOptions, snapshot, pageReq,
                 chunkReq, chunkRes, moreResult, requests>>
  /\ UNCHANGED arrivals
  /\ UNCHANGED <<requestVars, contentVars>>

\* _fetchMoreRegular: one page request with the Listing's cursors
FetchMoreRegular ==
  /\ pc = "fetchMore"
  /\ ~fetchMoreReturnsEarly(heap, thisRef, options)
  /\ ~HasLookahead(heap, thisRef)
  /\ ~HasMore(heap, thisRef)
  /\ pageReq' = [before |-> QueryOf(heap, thisRef).before,
                 after |-> QueryOf(heap, thisRef).after,
                 isCommentList |-> heap.listing[thisRef].isCommentList]
  /\ requests' = Count(requests + 1)
  /\ pc' = "awaitPage"
  /\ UNCHANGED <<heap, thisRef, options, origRef, callOptions, snapshot,
                 chunkReq, chunkRes, moreResult>>
  /\ UNCHANGED arrivals
  /\ UNCHANGED <<requestVars, contentVars>>

\* the page arrives: merge it into a clone and call fetchMore on the clone
\* for what is still missing
PageMerged(resp) ==
  /\ pc = "awaitPage"
  /\ heap' = mergePage(heap, thisRef, options, resp)
  /\ options' = [options EXCEPT !.append = TRUE,
                                !.amount = Minus(@, Len(resp.items))]
  /\ thisRef' = "work"
  /\ pc' = "fetchMore"
  /\ UNCHANGED <<origRef, callOptions, snapshot, pageReq, chunkReq, chunkRes,
                 moreResult, requests>>
  /\ UNCHANGED arrivals
  /\ UNCHANGED <<requestVars, contentVars>>

PageResponse == \E resp \in Pages(pageReq) : PageMerged(resp)

\* the page request fails
PageError ==
  /\ pc = "awaitPage"
  /\ pc' = "rejected"
  /\ UNCHANGED <<heap, thisRef, options, origRef, callOptions, snapshot, pageReq,
                 chunkReq, chunkRes, moreResult, requests>>
  /\ UNCHANGED arrivals
  /\ UNCHANGED <<requestVars, contentVars>>

\* _fetchMoreComments -> More.fetchMore with skipReplies: every chunk of up
\* to 100 ids is requested at once (api/info)
MoreFetchFlat ==
  /\ pc = "fetchMore"
  /\ ~fetchMoreReturnsEarly(heap, thisRef, options)
  /\ ~HasLookahead(heap, thisRef)
  /\ HasMore(heap, thisRef)
  /\ options.skipReplies
  /\ chunkReq' = FlatChunks(ChildrenOf(heap, thisRef), options.amount, 0)
  /\ chunkRes' = [i \in 1..Len(chunkReq') |-> NotYet]
  /\ requests' = Count(requests + Len(chunkReq'))
  /\ pc' = "awaitFlat"
  /\ UNCHANGED <<heap, thisRef, options, origRef, callOptions, snapshot, pageReq,
                 moreResult>>
  /\ arrivals' = <<>>
  /\ UNCHANGED <<requestVars, contentVars>>

\* one api/info response arrives, in any order
FlatResponse ==
  /\ pc = "awaitFlat"
  /\ \E i \in 1..Len(chunkReq) :
       /\ chunkRes[i] = NotYet
       /\ \E ans \in InfoAnswers(chunkReq[i]) :
            chunkRes' = [chunkRes EXCEPT ![i] = ans]
       /\ arrivals' = Append(arrivals, i)
  /\ UNCHANGED <<heap, pc, thisRef, options, origRef, callOptions, snapshot,
                 pageReq, chunkReq, moreResult, requests>>
  /\ UNCHANGED <<requestVars, contentVars>>

\* Promise.all(...).then(flatten)
FlatJoin ==
  /\ pc = "awaitFlat"
  /\ \A i \in 1..Len(chunkReq) : chunkRes[i] # NotYet
  /\ moreResult' = promiseAll(chunkRes, arrivals)
  /\ pc' = "moreDone"
  /\ UNCHANGED <<heap, thisRef, options, origRef, callOptions, snapshot, pageReq,
                 chunkReq, chunkRes, requests>>
  /\ UNCHANGED arrivals
  /\ UNCHANGED <<requestVars, contentVars>>

\* one api/info request fails: Promise.all rejects
FlatError ==
  /\ pc = "awaitFlat"
  /\ \E i \in 1..Len(chunkReq) : chunkRes[i] = NotYet
  /\ pc' = "rejected"
  /\ UNCHANGED <<heap, thisRef, options, origRef, callOptions, snapshot, pageReq,
                 chunkReq, chunkRes, moreResult, requests>>
  /\ UNCHANGED arrivals
  /\ UNCHANGED <<requestVars, contentVars>>

\* _fetchMoreComments -> More.fetchMore -> fetchTree: the first chunk of up
\* to 20 ids is requested (api/morechildren)
MoreFetchTree ==
  /\ pc = "fetchMore"
  /\ ~fetchMoreReturnsEarly(heap, thisRef, options)
  /\ ~HasLookahead(heap, thisRef)
  /\ HasMore(heap, thisRef)
  /\ ~options.skipReplies
  /\ chunkReq' = fetchTreeRequests(ChildrenOf(heap, thisRef), options.amount, 0)
  /\ chunkRes' = <<>>
  /\ requests' = Count(requests + 1)
  /\ pc' = "awaitTree"
  /\ UNCHANGED <<heap, thisRef, options, origRef, callOptions, snapshot, pageReq,
                 moreResult>>
  /\ UNCHANGED arrivals
  /\ UNCHANGED <<requestVars, contentVars>>

\* ids requested by fetchTree so far
TreeRequested == Len(Flatten(chunkReq))

\* an api/morechildren response arrives; the next chunk is requested only
\* now; a response that holds a Comment or a More makes the call throw
TreeResponse ==
  /\ pc = "awaitTree"
  /\ \E things \in TreeThings(chunkReq[Len(chunkReq)]) :
       /\ chunkRes' = Append(chunkRes, things)
       /\ IF buildRepliesTree(things).threw \/ childMoresThrow(things)
          THEN /\ pc' = "rejected"
               /\ UNCHANGED <<chunkReq, moreResult, requests>>
          ELSE LET start == TreeRequested
                   amount == Minus(options.amount, start)
                   children == ChildrenOf(heap, thisRef)
               IN IF amount <= 0 \/ start >= Len(children)
                  THEN /\ moreResult' = Flatten([i \in 1..Len(chunkRes') |->
                                                   resultTrees(chunkRes'[i])])
                       /\ pc' = "moreDone"
                       /\ UNCHANGED <<chunkReq, requests>>
                  ELSE /\ chunkReq' = chunkReq \o
                              fetchTreeRequests(children, amount, start)
                       /\ requests' = Count(requests + 1)
                       /\ UNCHANGED <<pc, moreResult>>
  /\ UNCHANGED <<heap, thisRef, options, origRef, callOptions, snapshot, pageReq>>
  /\ UNCHANGED arrivals
  /\ UNCHANGED <<requestVars, contentVars>>

\* the api/morechildren request fails
TreeError ==
  /\ pc = "awaitTree"
  /\ pc' = "rejected"
  /\ UNCHANGED <<heap, thisRef, options, origRef, callOptions, snapshot, pageReq,
                 chunkReq, chunkRes, moreResult, requests>>
  /\ UNCHANGED arrivals
  /\ UNCHANGED <<requestVars, contentVars>>

\* the .then() of _fetchMoreComments: push the comments onto a clone and
\* drop `amount` ids from the clone's stub
FetchMoreCommentsMerge ==
  /\ pc = "moreDone"
  /\ heap' = mergeComments(heap, thisRef, options, moreResult)
  /\ thisRef' = "work"
  /\ pc' = "done"
  /\ UNCHANGED <<options, origRef, callOptions, snapshot, pageReq, chunkReq,
                 chunkRes, moreResult, requests>>
  /\ UNCHANGED arrivals
  /\ UNCHANGED <<requestVars, contentVars>>

\* The caller receives the Listing (and keeps it), or the rejection.
Return ==
  /\ pc \in {"done", "rejected"}
  /\ heap' = IF pc = "done"
             THEN Free(Store(heap, "result", Deep(heap, "work")), "work")
             ELSE Free(heap, "work")
  /\ pc' = "idle"
  /\ thisRef' = NoRef
  /\ origRef' = NoRef
  /\ options' = NoOptions
  /\ callOptions' = NoOptions
  /\ snapshot' = Deep(EmptyHeap, "root")
  /\ pageReq' = NoPageReq
  /\ chunkReq' = <<>>
  /\ chunkRes' = <<>>
  /\ moreResult' = <<>>
  /\ requests' = 0
  /\ arrivals' = <<>>
  /\ UNCHANGED <<requestVars, contentVars>>

NextListing ==
  \/ \E s \in {"root", "result"}, amount \in Amounts, append \in BOOLEAN,
        skipReplies \in BOOLEAN : Call(s, amount, append, skipReplies)
  \/ FetchMoreFinished
  \/ FetchMoreLookahead
  \/ StackOverflow
  \/ FetchMoreRegular
  \/ PageResponse
  \/ PageError
  \/ MoreFetchFlat
  \/ FlatResponse
  \/ FlatJoin
  \/ FlatError
  \/ MoreFetchTree
  \/ TreeResponse
  \/ TreeError
  \/ FetchMoreCommentsMerge
  \/ Return

SpecListing == InitListing /\ [][NextListing]_vars

\* Comment Listings whose stub holds one id, a full chunk of ids, one id more
\* than a chunk, and the ids of a long thread.
StubSizes == {1, MAX_API_INFO_AMOUNT, MAX_API_INFO_AMOUNT + 1, LongThread}

InitStub ==
  /\ \E n \in StubSizes :
       heap = Store(EmptyHeap, "root", Comments(<<1>>, TRUE, Range(2, n + 1), FALSE))
  /\ Idle
  /\ RequestIdle

\* fetchMore({amount, skipReplies: true}) on such a Listing
NextFlat ==
  \/ \E amount \in StubSizes \cup {Infinity}, append \in BOOLEAN :
        Call("root", amount, append, TRUE)
  \/ MoreFetchFlat
  \/ FlatResponse
  \/ FlatJoin
  \/ FlatError
  \/ FetchMoreCommentsMerge
  \/ Return

SpecFlat == InitStub /\ [][NextFlat]_vars

\* fetchMore({amount}) on such a Listing: the tree strategy
NextTree ==
  \/ \E amount \in StubSizes \cup {Infinity}, append \in BOOLEAN :
        Call("root", amount, append, FALSE)
  \/ MoreFetchTree
  \/ TreeResponse
  \/ TreeError
  \/ FetchMoreCommentsMerge
  \/ Return

SpecTree == InitStub /\ [][NextTree]_vars

\* A forward-paginated regular Listing over a fixed server-side sequence:
\* the first pages of it, or a placeholder that was not fetched yet.
FirstPages ==
  { Plain(Range(1, n), Null, n, TRUE) : n \in 1..(ServerLen - 1) }
    \cup { Plain(<<>>, Undef, Undef, TRUE) }

InitSteps ==
  /\ \E d \in FirstPages : heap = Store(EmptyHeap, "root", d)
  /\ Idle
  /\ RequestIdle

\* the page arrives from the server of the fixed sequence
PageResponseInOrder == \E resp \in FixedPages(pageReq) : PageMerged(resp)

\* fetchMore(amount) or fetchAll() on the initial Listing or on the Listing
\* the previous step returned
NextSteps ==
  \/ \E s \in {"root", "result"}, amount \in Amounts : Call(s, amount, TRUE, FALSE)
  \/ FetchMoreFinished
  \/ FetchMoreRegular
  \/ PageResponseInOrder
  \/ PageError
  \/ Return

SpecSteps == InitSteps /\ [][NextSteps]_vars

\* The event loop runs every callback that is ready, and every request is
\* answered or fails.
FairSpecListing == SpecListing /\ WF_vars(NextListing)

-----------------------------------------------------------------------------
(* Claims about Listing *)

Result == Deep(heap, "work")
Settled == pc \in {"done", "rejected"}
\* isFinished of the caller's Listing, as it was when the call began
WasFinished == isFinished(Store(EmptyHeap, "root", snapshot), "root")
IsPrefix(s, t) == Len(s) <= Len(t) /\ SubSeq(t, 1, Len(s)) = s
IsSuffix(s, t) == Len(s) <= Len(t) /\ SubSeq(t, Len(t) - Len(s) + 1, Len(t)) = s

\* C1: once a fetchMore/fetchAll call has settled, the Listing it was called
\* on has the items, the cursors, the lookahead buffer and the stub child ids
\* it had when the call began.
C1_OriginalNotMutated == Settled => Deep(heap, origRef) = snapshot

\* a call on a comment Listing has fulfilled: the returned Listing has grown
\* and its stub has been drained, so there was something to mutate
C1_Witness ==
  /\ pc = "done"
  /\ snapshot.hasMore
  /\ Len(Result.items) > Len(snapshot.items)
  /\ Result.children # snapshot.children

Surfaced ==
  Len(Result.items) - (IF callOptions.append THEN Len(snapshot.items) ELSE 0)

\* the page that has just been merged held more items than were asked for
SurplusPage == pc = "fetchMore" /\ options.amount < 0

FinishedWithStub(d) ==
  IF d.isCommentList
  THEN d.lookahead = <<>> /\ d.hasMore /\ d.children = <<>>
  ELSE ~d.uri \/ (d.after = Null /\ d.before = Null)

\* The same without asking for a stub: no child ids are left to fetch.
FinishedNoChildIds(d) ==
  IF d.isCommentList
  THEN d.lookahead = <<>> /\ d.children = <<>>
  ELSE ~d.uri \/ (d.after = Null /\ d.before = Null)

\* where the caller's Listing stood in the server's sequence, and how many
\* items the server holds beyond it
CursorOf(d) ==
  IF Truthy(d.before) THEN d.before
  ELSE IF Nullish(d.after) THEN 0 ELSE d.after
Remaining(d) ==
  IF Truthy(d.before) THEN d.before - 1 ELSE ServerLen - CursorOf(d)

\* fetchMore(n) with n beyond what the server holds has fulfilled on a
\* regular Listing with a URI
FetchedToTheEnd ==
  /\ pc = "done"
  /\ ~snapshot.isCommentList
  /\ snapshot.uri
  /\ callOptions.append
  /\ callOptions.amount > Remaining(snapshot)

\* the returned Listing is finished and holds the original items and, next to
\* them, the server's items up to its null cursor, contiguous and in order
ExhaustedInOrder ==
  LET k == Len(Result.items) - Len(snapshot.items)
      c == CursorOf(snapshot)
  IN /\ isFinished(heap, "work")
     /\ k >= 0
     /\ Result.items = IF Truthy(snapshot.before)
                       THEN Range(c - k, c - 1) \o snapshot.items
                       ELSE snapshot.items \o Range(c + 1, c + k)

fetchAllItems(d) == d.items \o Range(CursorOf(d) + 1, ServerLen)

\* the Listing the steps began with
InitialListing == Deep(heap, "root")

C15_FetchAllFinishes ==
  (pc = "done" /\ callOptions.amount = Infinity) => isFinished(heap, "work")

\* fetchAll() on a comment Listing that was not finished has fulfilled after
\* at least one request
C15_Witness ==
  /\ pc = "done"
  /\ callOptions.amount = Infinity
  /\ snapshot.isCommentList
  /\ ~WasFinished
  /\ requests > 0

\* the elements of a sequence
Elements(s) == { s[i] : i \in 1..Len(s) }

DrainsStub ==
  /\ pc \in {"awaitFlat", "moreDone"}
  /\ callOptions.skipReplies
  /\ callOptions.amount >= Len(snapshot.children)

\* ceil(n / MAX_API_INFO_AMOUNT)
ChunksFor(n) == (n + MAX_API_INFO_AMOUNT - 1) \div MAX_API_INFO_AMOUNT

\* the child ids are increasing numbers: in order means increasing
Increasing(ids) == \A k \in 1..(Len(ids) - 1) : ids[k] < ids[k + 1]

\* C17: with skipReplies and an amount that covers the stub, ceil(N/100)
\* api/info requests are sent, their ids are the child ids, each once, and
\* the comments come back in the order of the child ids whatever the order
\* the responses arrived in.
C17_FlatChunksInOrder ==
  DrainsStub =>
    /\ Len(chunkReq) = ChunksFor(Len(snapshot.children))
    /\ Flatten(chunkReq) = snapshot.children
    /\ pc = "moreDone" =>
         /\ Increasing(moreResult)
         /\ Elements(moreResult) \subseteq Elements(snapshot.children)

\* three chunks were requested, the last was answered first, and the
\* comments have been joined
C17_Witness ==
  /\ DrainsStub
  /\ pc = "moreDone"
  /\ Len(chunkReq) = 3
  /\ arrivals[1] = 3
  /\ Len(moreResult) >= Len(snapshot.children) - 1

\* the running call uses the tree strategy
TreeCall == pc # "idle" /\ ~callOptions.skipReplies

\* api/morechildren requests sent and not answered yet
TreeInFlight ==
  IF pc = "awaitTree" THEN Len(chunkReq) - Len(chunkRes) ELSE 0

\* C18: without skipReplies, a fetchMore call has at most one api/morechildren
\* request in flight: a request is sent only when every earlier one has been
\* answered.
C18_TreeRequestsAreSequential ==
  TreeCall => /\ TreeInFlight <= 1
              /\ Len(chunkReq) <= Len(chunkRes) + 1

\* the request for the second chunk is in flight, the first one has been
\* answered
C18_Witness ==
  /\ TreeCall
  /\ pc = "awaitTree"
  /\ Len(chunkReq) = 2
  /\ Len(chunkRes) = 1

\* the last api/morechildren response held a nested More stub (and nothing
\* else that stops the call)
NestedStubReceived ==
  /\ TreeCall
  /\ chunkRes # <<>>
  /\ childMoresThrow(chunkRes[Len(chunkRes)])
  /\ ~buildRepliesTreeThrows(chunkRes[Len(chunkRes)])

\* C19: a chunk response that holds a nested More stub makes the call expand
\* that stub and go on (to the next chunk, or to its result); it does not
\* end the call.
C19_NestedStubIsExpanded ==
  NestedStubReceived => pc # "rejected"

\* an item of a Listing that is a content object, not a More object
IsContent(item) == item > 0

\* C20: every item of every Listing is a content object, at construction and
\* after any fetchMore or fetchAll, tree-strategy fetches whose responses hold
\* nested stubs included.
C20_NoMoreAmongItems ==
  \A s \in Slots :
    \A i \in 1..Len(heap.listing[s].items) : IsContent(heap.listing[s].items[i])

\* a tree-strategy fetch on a Listing with comments has received a response
\* that holds a nested stub
C20_Witness ==
  /\ NestedStubReceived
  /\ snapshot.items # <<>>
  /\ Deep(heap, origRef).items = snapshot.items

-----------------------------------------------------------------------------
(* The request pipeline: oauthRequest *)

\* What a promise of the pipeline rejects with.
StatusCodeError(status) ==
  [name |-> "StatusCodeError", statusCode |-> status, timeUntilExpiry |-> 0]
RateLimitError(ms) ==
  [name |-> "RateLimitError", statusCode |-> 0, timeUntilExpiry |-> ms]
TypeError == [name |-> "TypeError", statusCode |-> 0, timeUntilExpiry |-> 0]
TokenError == [name |-> "Error", statusCode |-> 0, timeUntilExpiry |-> 0]
RequestError == [name |-> "RequestError", statusCode |-> 0, timeUntilExpiry |-> 0]

\* oauthRequest calls itself from its two catch handlers; a frame is one such
\* call: its `attempts` argument and the handler that made it.
Frame(attempts, via) == [attempts |-> attempts, via |-> via]
Attempts(r) == r.frames[Len(r.frames)].attempts
PushFrame(r, attempts, via) == [r EXCEPT !.frames = Append(@, Frame(attempts, via))]

\* this.ratelimitRemaining < 1 && Date.now() < this.ratelimitExpiration
ratelimitExceeded(c, t) == c.ratelimitRemaining < 1 /\ t < c.ratelimitExpiration

timeUntilExpiry_elapsed(c, t) == 0

timeUntilExpiry(c, t) == c.ratelimitExpiration - t

\* setTimeout never fires early; a negative delay is no delay
delay(t, ms) == t + Max(ms, 0)

\* a reservation that counts the next slot from now, whatever is reserved
_awaitRequestDelay_fromNow(c, r, t, cfg) ==
  LET waitTime == c._nextRequestTimestamp - t
  IN [c |-> [c EXCEPT !._nextRequestTimestamp = t + cfg.requestDelay],
      r |-> [r EXCEPT !.pc = "delayWait", !.wake = delay(t, waitTime)]]

\* _awaitRequestDelay: reserve the next request slot and wait for it
_awaitRequestDelay(c, r, t, cfg) ==
  LET waitTime == c._nextRequestTimestamp - t
  IN [c |-> [c EXCEPT !._nextRequestTimestamp = Max(t, @) + cfg.requestDelay],
      r |-> [r EXCEPT !.pc = "delayWait", !.wake = delay(t, waitTime)]]

\* .catch(...retryErrorCodes.map(code => ({statusCode: code})), handler) on a
\* native Promise: catch takes one argument.  With a non-empty retryErrorCodes
\* that argument is an object, which is not callable, and the rejection passes
\* through; with an empty one it is the handler, which then sees every error.
retryHandlerRuns(cfg) == cfg.retryErrorCodes = {}

isStaleTokenError_anyStatus(c, t, e) ==
  Truthy(c.accessToken) /\ c.tokenExpiration - t < MAX_TOKEN_LATENCY

\* error.statusCode === 401 && this.accessToken &&
\* this.tokenExpiration - Date.now() < MAX_TOKEN_LATENCY
isStaleTokenError(c, t, e) ==
  e.statusCode = 401 /\ Truthy(c.accessToken) /\ c.tokenExpiration - t < MAX_TOKEN_LATENCY

\* an attempt that reserves its slot without looking at the rate window
oauthRequest_noGate(c, r, t, cfg) == _awaitRequestDelay(c, r, t, cfg)

RECURSIVE oauthRequest(_, _, _, _)
RECURSIVE retryCatch(_, _, _, _, _)
RECURSIVE authCatch(_, _, _, _, _)
RECURSIVE rejects(_, _, _, _, _)

\* oauthRequest(options, attempts) up to its first timer: _awaitRatelimit, then
\* _awaitRequestDelay.  The top frame of r is the call.
oauthRequest(c, r, t, cfg) ==
  IF ratelimitExceeded(c, t)
  THEN IF cfg.continueAfterRatelimitError
       THEN [c |-> c,
             r |-> [r EXCEPT !.pc = "ratelimitWait",
                             !.wake = delay(t, timeUntilExpiry(c, t)),
                             !.gateUntil = c.ratelimitExpiration]]
       ELSE retryCatch(c, r, t, cfg, RateLimitError(timeUntilExpiry(c, t)))
  ELSE _awaitRequestDelay(c, r, t, cfg)

\* the first catch of the chain (the retry handler)
retryCatch(c, r, t, cfg, e) ==
  IF ~retryHandlerRuns(cfg)
  THEN authCatch(c, r, t, cfg, e)
  ELSE IF e.name # "StatusCodeError"
  THEN authCatch(c, r, t, cfg, TypeError)    \* e.response is undefined
  ELSE IF r.method \notin IDEMPOTENT_HTTP_VERBS
          \/ Attempts(r) >= cfg.maxRetryAttempts
  THEN authCatch(c, r, t, cfg, e)
  ELSE oauthRequest(c, PushFrame(r, Attempts(r) + 1, "retry"), t, cfg)

\* the second catch of the chain (the 401 handler)
authCatch(c, r, t, cfg, e) ==
  IF isStaleTokenError(c, t, e)
  THEN oauthRequest([c EXCEPT !.accessToken = Null, !.tokenExpiration = Null],
                    [PushFrame(r, Attempts(r), "auth") EXCEPT !.reauths = @ + 1],
                    t, cfg)
  ELSE rejects(c, r, t, cfg, e)

\* the promise of the top frame rejects with e: the caller gets it, or the
\* chain of the frame that made the call goes on with it
rejects(c, r, t, cfg, e) ==
  LET via == r.frames[Len(r.frames)].via
      popped == [r EXCEPT !.frames = SubSeq(@, 1, Len(@) - 1)]
  IN IF via = "call"
     THEN [c |-> c, r |-> [popped EXCEPT !.pc = "rejected", !.error = e]]
     ELSE IF via = "retry"
     THEN authCatch(c, popped, t, cfg, e)
     ELSE rejects(c, popped, t, cfg, e)

\* rawRequest with auth: {bearer: token}
rawRequest(c, r, t) ==
  [c |-> c,
   r |-> [r EXCEPT !.pc = "inflight", !.sentAt = t,
                   !.bearer = c.accessToken, !.bearerExp = c.tokenExpiration,
                   !.dispatches = @ + 1,
                   !.redispatches = IF r.reauths > 0 THEN @ + 1 ELSE @]]

\* a token is asked for only when none is cached
needsAccessToken_noExpiry(c, t) ==
  ~Truthy(c.accessToken) /\ Truthy(c.refreshToken)

\* (!accessToken || Date.now() > tokenExpiration) &&
\* (refreshToken || (username && password))
needsAccessToken(c, t) ==
  (~Truthy(c.accessToken) \/ t > c.tokenExpiration) /\ Truthy(c.refreshToken)

\* updateAccessToken, then the .then(token => this.rawRequest(...))
updateAccessToken(c, r, t) ==
  IF needsAccessToken(c, t)
  THEN [c |-> c, r |-> [r EXCEPT !.pc = "tokenWait", !.sentAt = t,
                                 !.tokenRequests = @ + 1]]
  ELSE rawRequest(c, r, t)

\* (Math.pow(2, attempts - 1) + (Math.random() - 0.3)) * 1000
Jitter == {-300, 699}

\* a backoff that starts at one second for the second attempt
backoffMs_fromSecondAttempt(attempts, jitter) ==
  (2 ^ (attempts - 2)) * 1000 + jitter

backoffMs(attempts, jitter) == (2 ^ (attempts - 1)) * 1000 + jitter

-----------------------------------------------------------------------------
(* The transport and the token endpoint *)

\* what rawRequest settles with: a status, and the rate-limit headers if the
\* response carries them
Statuses == {200, 401, 503}
HeaderAnswers ==
  { [present |-> FALSE, remaining |-> 0, reset |-> 0],
    [present |-> TRUE, remaining |-> 0, reset |-> ResetSeconds],
    [present |-> TRUE, remaining |-> 1, reset |-> ResetSeconds] }

\* what api/v1/access_token answers: a token, or {error: 'invalid_grant'}
TokenAnswers ==
  { [access_token |-> 2, expires_in |-> ExpiresIn, scope |-> 1, error |-> FALSE],
    [access_token |-> Undef, expires_in |-> Undef, scope |-> Undef, error |-> TRUE] }

-----------------------------------------------------------------------------
(* Initial states of the requester *)

\* r.config({...}): the options the pipeline reads
Configs ==
  { [createConfig EXCEPT !.requestDelay = d,
                         !.continueAfterRatelimitError = k,
                         !.retryErrorCodes = codes,
                         !.maxRetryAttempts = m] :
      d \in {0, RequestDelayMs}, k \in BOOLEAN,
      codes \in {createConfig.retryErrorCodes, {}},
      m \in {1, createConfig.maxRetryAttempts} }

\* The requester when the first call of the model is made: as constructed
\* (with a refresh token, an access token, or both), or holding the token
\* an earlier refresh stored, about to expire or not; its rate window
\* unknown or exhausted by earlier responses.
Clients ==
  { [tok EXCEPT !.ratelimitRemaining = w[1], !.ratelimitExpiration = w[2]] :
      tok \in { Snoowrap(Null, 1), Snoowrap(1, Null) }
              \cup { [Snoowrap(1, 1) EXCEPT !.tokenExpiration = StartTime + life] :
                       life \in {TokenLifeLeft, ExpiresIn * 1000} },
      w \in { <<Null, Null>>, <<0, StartTime + ResetSeconds * 1000>> } }

InitRequest ==
  /\ heap = EmptyHeap
  /\ Idle
  /\ now = StartTime
  /\ client \in Clients
  /\ _config \in Configs
  /\ reqs = [i \in Requests |-> NoRequest]
  /\ lastDispatch = 0

-----------------------------------------------------------------------------
(* Steps of the pipeline.  A step is what runs between two timer or network *)
(* events: the callback of the event and the promise reactions it queues.   *)

Settle(i, out) ==
  /\ client' = out.c
  /\ reqs' = [reqs EXCEPT ![i] = out.r]
  /\ lastDispatch' = IF out.r.dispatches > reqs[i].dispatches THEN now
                     ELSE lastDispatch
  /\ UNCHANGED <<now, _config>>
  /\ UNCHANGED <<listingVars, contentVars>>

HasSettled(i) == reqs[i].pc \in {"fulfilled", "rejected"}

\* the first r.oauthRequest({uri, method}) made on the requester
OauthRequestCall(method) ==
  /\ \A i \in Requests : reqs[i].pc = "new"
  /\ Settle(1, oauthRequest(client,
                            [NoRequest EXCEPT !.method = method,
                                              !.frames = <<Frame(1, "call")>>],
                            now, _config))

\* a further r.oauthRequest({uri, method}), while earlier calls are running
\* or after they have settled (the caller then has their outcome, and nothing
\* else is remembered of them)
LaterCall(i, method) ==
  /\ i > 1
  /\ reqs[i].pc = "new"
  /\ \A j \in Requests : j < i => reqs[j].pc # "new"
  /\ LET out == oauthRequest(client,
                             [NoRequest EXCEPT !.method = method,
                                               !.frames = <<Frame(1, "call")>>],
                             now, _config)
     IN /\ client' = out.c
        /\ reqs' = [j \in Requests |->
                      IF j = i THEN out.r
                      ELSE IF HasSettled(j) THEN [NoRequest EXCEPT !.pc = reqs[j].pc]
                      ELSE reqs[j]]
  /\ UNCHANGED <<now, _config, lastDispatch>>
  /\ UNCHANGED <<listingVars, contentVars>>

\* the delay of _awaitRatelimit is over: _awaitRequestDelay
RatelimitElapsed(i) ==
  /\ reqs[i].pc = "ratelimitWait"
  /\ now >= reqs[i].wake
  /\ Settle(i, _awaitRequestDelay(client, reqs[i], now, _config))

\* the delay of _awaitRequestDelay is over: _awaitExponentialBackoff, which
\* resolves at once for a first attempt
RequestDelayElapsed(i) ==
  /\ reqs[i].pc = "delayWait"
  /\ now >= reqs[i].wake
  /\ \E jitter \in Jitter :
       Settle(i, IF Attempts(reqs[i]) = 1
                 THEN updateAccessToken(client, reqs[i], now)
                 ELSE [c |-> client,
                       r |-> [reqs[i] EXCEPT
                                !.pc = "backoffWait",
                                !.wake = delay(now, backoffMs(Attempts(reqs[i]), jitter))]])

\* the delay of _awaitExponentialBackoff is over: updateAccessToken
BackoffElapsed(i) ==
  /\ reqs[i].pc = "backoffWait"
  /\ now >= reqs[i].wake
  /\ Settle(i, updateAccessToken(client, reqs[i], now))

\* a token response whose error is looked for before anything is stored
TokenResponse_keepsTokenOnError(i) ==
  /\ reqs[i].pc = "tokenWait"
  /\ \E tokenInfo \in TokenAnswers :
       LET c1 == IF tokenInfo.error THEN client
                 ELSE [client EXCEPT
                         !.accessToken = tokenInfo.access_token,
                         !.tokenExpiration = now + tokenInfo.expires_in * 1000,
                         !.scope = tokenInfo.scope]
           r1 == [reqs[i] EXCEPT !.sentAt = 0, !.tokenError = tokenInfo.error]
       IN Settle(i, IF tokenInfo.error
                    THEN retryCatch(c1, r1, now, _config, TokenError)
                    ELSE rawRequest(c1, r1, now))

\* the token endpoint answers: the .then() of updateAccessToken stores what it
\* got before it looks for an error (an undefined token with a NaN
\* expiration, which no test can tell from null), then the request is sent
TokenResponse(i) ==
  /\ reqs[i].pc = "tokenWait"
  /\ \E tokenInfo \in TokenAnswers :
       LET c1 == [client EXCEPT
                    !.accessToken = tokenInfo.access_token,
                    !.tokenExpiration = IF tokenInfo.error THEN Null
                                        ELSE now + tokenInfo.expires_in * 1000,
                    !.scope = IF tokenInfo.error THEN @ ELSE tokenInfo.scope]
           r1 == [reqs[i] EXCEPT !.sentAt = 0, !.tokenError = tokenInfo.error]
       IN Settle(i, IF tokenInfo.error
                    THEN retryCatch(c1, r1, now, _config, TokenError)
                    ELSE rawRequest(c1, r1, now))

\* the token request fails in the transport (no response)
TokenRequestFails(i) ==
  /\ reqs[i].pc = "tokenWait"
  /\ Settle(i, retryCatch(client, [reqs[i] EXCEPT !.sentAt = 0], now, _config,
                          RequestError))

\* the response of rawRequest: transform() captures the rate-limit headers,
\* whatever the status; a status other than 2xx rejects
Response(i) ==
  /\ reqs[i].pc = "inflight"
  /\ \E status \in Statuses, headers \in HeaderAnswers :
       LET r == reqs[i]
           c1 == IF headers.present
                 THEN [client EXCEPT
                         !.ratelimitRemaining = headers.remaining,
                         !.ratelimitExpiration = now + headers.reset * 1000]
                 ELSE client
           r1 == [r EXCEPT
                    !.sentAt = 0,
                    !.responses = @ + 1,
                    !.status = status,
                    !.transient = IF status \in _config.retryErrorCodes
                                  THEN @ + 1 ELSE @,
                    !.stale401 = /\ status = 401
                                 /\ Truthy(r.bearer)
                                 /\ Truthy(r.bearerExp)
                                 /\ r.bearerExp - now < MAX_TOKEN_LATENCY]
       IN Settle(i, IF status = 200
                    THEN [c |-> c1, r |-> [r1 EXCEPT !.pc = "fulfilled",
                                                     !.frames = <<>>]]
                    ELSE retryCatch(c1, r1, now, _config, StatusCodeError(status)))

Waiting(i) == reqs[i].pc \in {"ratelimitWait", "delayWait", "backoffWait"}
InFlight(i) == reqs[i].pc \in {"tokenWait", "inflight"}

\* the instants at which something changes for the requester
Instants ==
  { reqs[i].wake : i \in { j \in Requests : Waiting(j) } }
    \cup { client.ratelimitExpiration, client.tokenExpiration + 1 }

\* Time passes, up to the next instant of interest; a timer that is due fires
\* first (the event loop is idle between the steps), and a request is not in
\* the transport for longer than requestTimeout.
TimePasses ==
  /\ \A i \in Requests : Waiting(i) => reqs[i].wake > now
  /\ \E t \in Instants :
       /\ t > now
       /\ \A u \in Instants : u > now => t <= u
       /\ \A i \in Requests :
            InFlight(i) => t <= reqs[i].sentAt + _config.requestTimeout
       /\ now' = t
  /\ UNCHANGED <<client, _config, reqs, lastDispatch>>
  /\ UNCHANGED <<listingVars, contentVars>>

Methods == {"get", "post"}

NextRequest ==
  \/ \E method \in Methods : OauthRequestCall(method)
  \/ \E i \in Requests : RatelimitElapsed(i)
  \/ \E i \in Requests : RequestDelayElapsed(i)
  \/ \E i \in Requests : BackoffElapsed(i)
  \/ \E i \in Requests : TokenResponse(i)
  \/ \E i \in Requests : TokenRequestFails(i)
  \/ \E i \in Requests : Response(i)
  \/ TimePasses

\* one call on the requester, under every configuration
SpecRequest == InitRequest /\ [][NextRequest]_vars

\* several calls on the requester, overlapping or not, under the default
\* retryErrorCodes (no call is then made by the retry handler, and no backoff
\* is waited for)
InitConcurrent ==
  /\ InitRequest
  /\ _config.retryErrorCodes = createConfig.retryErrorCodes
  /\ _config.maxRetryAttempts = createConfig.maxRetryAttempts

NextConcurrent ==
  \/ \E method \in Methods : OauthRequestCall(method)
  \/ \E i \in Requests, method \in Methods : LaterCall(i, method)
  \/ \E i \in Requests : RatelimitElapsed(i)
  \/ \E i \in Requests : RequestDelayElapsed(i)
  \/ \E i \in Requests : TokenResponse(i)
  \/ \E i \in Requests : TokenRequestFails(i)
  \/ \E i \in Requests : Response(i)
  \/ TimePasses

SpecConcurrent == InitConcurrent /\ [][NextConcurrent]_vars

\* The event loop runs every callback that is due, time passes, and the
\* transport answers every request or fails it (requestTimeout).
FairSpecRequest == SpecRequest /\ WF_vars(NextRequest)

-----------------------------------------------------------------------------
(* Claims about the request pipeline *)

Idempotent(i) == reqs[i].method \in IDEMPOTENT_HTTP_VERBS
Rejected(i) == reqs[i].pc = "rejected"
Retryable(status) == status \in _config.retryErrorCodes

\* C5: an idempotent request is rejected with a status of retryErrorCodes
\* only after maxRetryAttempts responses with such a status (it is retried
\* while attempts are left).
C5_RetryBudget ==
  \A i \in Requests :
    (Rejected(i) /\ Idempotent(i) /\ Retryable(reqs[i].error.statusCode))
      => reqs[i].transient = _config.maxRetryAttempts

\* C6: a POST or PATCH that is answered with a status of retryErrorCodes is
\* rejected with it at once: no dispatch follows that response.
C6_NonIdempotentNotRetried ==
  \A i \in Requests :
    (~Idempotent(i) /\ reqs[i].transient > 0)
      => /\ Rejected(i)
         /\ Retryable(reqs[i].error.statusCode)
         /\ reqs[i].transient = 1
         /\ reqs[i].dispatches = 1 + reqs[i].reauths

\* a POST was answered 503 on its only dispatch, with attempts left, while
\* the cached token was in its last seconds
C6_Witness ==
  \E i \in Requests :
    /\ reqs[i].method = "post"
    /\ Rejected(i)
    /\ reqs[i].error.statusCode = 503
    /\ reqs[i].dispatches = 1
    /\ _config.maxRetryAttempts > 1
    /\ Truthy(client.accessToken)
    /\ client.tokenExpiration - now < MAX_TOKEN_LATENCY

\* request i is answered 401 in this step
Received401(i) ==
  /\ reqs'[i].responses = reqs[i].responses + 1
  /\ reqs'[i].status = 401

\* the cached token is in its last seconds
TokenNearExpiry ==
  /\ Truthy(client.accessToken)
  /\ Truthy(client.tokenExpiration)
  /\ client.tokenExpiration - now < MAX_TOKEN_LATENCY

\* C7: a 401 that arrives while the cached token is in its last seconds
\* invalidates the token and sends the request again, once; a 401 on that
\* second dispatch is propagated.
C7_StaleTokenRecovery ==
  [][\A i \in Requests :
       /\ (Received401(i) /\ TokenNearExpiry /\ reqs[i].reauths = 0)
            => (reqs'[i].reauths = 1 /\ client'.accessToken = Null)
       /\ (Received401(i) /\ reqs[i].reauths > 0)
            => (reqs'[i].pc = "rejected" /\ reqs'[i].error.statusCode = 401)
       /\ reqs'[i].redispatches <= 1]_vars

\* C8: no call is rejected with the 401 it got for a token in its last
\* seconds, also when calls overlap.
C8_StaleTokenNeverSurfaced ==
  \A i \in Requests :
    ~(Rejected(i) /\ reqs[i].error.statusCode = 401 /\ reqs[i].stale401)

\* C9: a call made while the rate window is exhausted and
\* continueAfterRatelimitError is off is rejected with a RateLimitError that
\* carries the time to the reset; nothing is sent, no token is requested, and
\* the requester's fields are unchanged.
C9_RateLimitErrorLeavesNoTrace ==
  [][\A i \in Requests :
       (/\ reqs[i].pc = "new"
        /\ reqs'[i].pc # "new"
        /\ ratelimitExceeded(client, now)
        /\ ~_config.continueAfterRatelimitError)
         => /\ reqs'[i].pc = "rejected"
            /\ reqs'[i].error = RateLimitError(client.ratelimitExpiration - now)
            /\ reqs'[i].dispatches = 0
            /\ reqs'[i].tokenRequests = 0
            /\ client' = client]_vars

\* the call is waiting for the rate window and has not been sent yet
Suspended(i) == reqs[i].pc = "ratelimitWait" /\ reqs[i].dispatches = 0

\* the call ended without a dispatch because no access token could be had
TokenRefreshFailed(i) ==
  Rejected(i) /\ reqs[i].dispatches = 0 /\ reqs[i].tokenRequests > 0

Dispatched(i) == reqs'[i].dispatches > reqs[i].dispatches

\* C11: with a requestDelay d > 0, a request is handed to the transport no
\* sooner than d after the previous one of the same requester, whatever calls
\* overlap and whatever waits (backoff, token refresh) precede the dispatch.
C11_DispatchesAreSpaced ==
  [][\A i \in Requests :
       (Dispatched(i) /\ _config.requestDelay > 0 /\ lastDispatch > 0)
         => now - lastDispatch >= _config.requestDelay]_vars

-----------------------------------------------------------------------------
(* VoteableContent.expandReplies *)

\* the loaded replies and the ids a stub still holds are at most this many
MaxReplies == 2

\* the replies Listing of a fetched object: `loaded` replies, and a stub with
\* the ids of `stubbed` more
Replies(loaded, stubbed) ==
  Comments(Range(1, loaded), TRUE, Range(loaded + 1, loaded + stubbed), FALSE)

ReplyListings == { Replies(l, s) : l \in 0..MaxReplies, s \in 0..MaxReplies }

Limits == {0, 1, 2, Infinity}
Depths == {0, 1, 2, Infinity}

\* replies.fetchMore({amount: limit - replies.length}) sends a request unless
\* Listing.fetchMore returns early
repliesFetchMoreRequests(replies, limit) ==
  IF fetchMoreReturnsEarly(Store(EmptyHeap, "root", replies), "root",
                           [amount |-> Minus(limit, Len(replies.items)),
                            append |-> TRUE, skipReplies |-> FALSE])
  THEN 0 ELSE 1

\* _mutateAndExpandReplies({limit, depth}) on the deep clone of the fetched
\* object: `this` at depth <= 0; otherwise replies.fetchMore(...) is called and
\* .then(...).then(...).map(...) is evaluated on the promise it returns
_mutateAndExpandReplies(e, replies) ==
  IF e.depth <= 0
  THEN [e EXCEPT !.pc = "fulfilled", !.fetched = replies, !.value = replies]
  ELSE [e EXCEPT !.pc = "rejected", !.fetched = replies, !.error = "TypeError",
                 !.fetchMoreCalls = 1,
                 !.requests = repliesFetchMoreRequests(replies, e.limit)]

\* content.expandReplies({limit, depth}): this.fetch() is sent
ExpandReplies(limit, depth) ==
  /\ expand.pc = "idle"
  /\ expand' = [expand EXCEPT !.pc = "fetching", !.limit = limit, !.depth = depth]
  /\ UNCHANGED <<constructorArgs, snooWrapped, contents, op>>
  /\ UNCHANGED <<listingVars, requestVars>>

\* this.fetch() is answered: result._clone({deep: true}) is handed to
\* _mutateAndExpandReplies
ExpandFetched(replies) ==
  /\ expand.pc = "fetching"
  /\ expand' = _mutateAndExpandReplies(expand, replies)
  /\ UNCHANGED <<constructorArgs, snooWrapped, contents, op>>
  /\ UNCHANGED <<listingVars, requestVars>>

\* this.fetch() fails
ExpandFetchError ==
  /\ expand.pc = "fetching"
  /\ expand' = [expand EXCEPT !.pc = "rejected", !.error = "RequestError"]
  /\ UNCHANGED <<constructorArgs, snooWrapped, contents, op>>
  /\ UNCHANGED <<listingVars, requestVars>>

InitExpand ==
  /\ heap = EmptyHeap
  /\ Idle
  /\ RequestIdle

NextExpand ==
  \/ \E limit \in Limits, depth \in Depths : ExpandReplies(limit, depth)
  \/ \E replies \in ReplyListings : ExpandFetched(replies)
  \/ ExpandFetchError

SpecExpand == InitExpand /\ [][NextExpand]_vars

\* C21: expandReplies({limit: Infinity, depth: Infinity}) whose requests are
\* answered returns a version of the object whose replies Listing is finished
\* and holds every reply the fetched object had.
C21_ExpandRepliesReturnsExpanded ==
  ( /\ expand.pc \in {"fulfilled", "rejected"}
    /\ expand.limit = Infinity
    /\ expand.depth = Infinity
    /\ expand.error # "RequestError" )
  => /\ expand.pc = "fulfilled"
     /\ isFinished(Store(EmptyHeap, "root", expand.value), "root")
     /\ \A i \in 1..Len(expand.fetched.items) :
          \E j \in 1..Len(expand.value.items) :
            expand.value.items[j] = expand.fetched.items[i]

-----------------------------------------------------------------------------
(* SnooWrapped: the client *)

\* !v and typeof v === 'string' on such a value
Falsy(v) == v \in {Undefined, EmptyString}
IsString(v) == v \notin {Undefined, NotAString}

\* the constructor without the test !opts.accessToken
SnooWrapped_emptyTokenAccepted(opts) ==
  IF ~opts.given \/ Falsy(opts.userAgent)
  THEN [NotConstructed EXCEPT !.thrown = "RequiredArgumentError"]
  ELSE IF /\ ~IsString(opts.accessToken)
          /\ ( \/ opts.clientId = Undefined
               \/ opts.clientSecret = Undefined
               \/ ~IsString(opts.refreshToken) )
          /\ ( \/ opts.clientId = Undefined
               \/ opts.clientSecret = Undefined
               \/ opts.username = Undefined
               \/ opts.password = Undefined )
  THEN [NotConstructed EXCEPT !.thrown = "MissingCredentialsError"]
  ELSE [NotConstructed EXCEPT !.built = TRUE,
          !.userAgent = opts.userAgent,
          !.clientId = opts.clientId,
          !.clientSecret = opts.clientSecret,
          !.refreshToken = opts.refreshToken,
          !.accessToken = opts.accessToken,
          !.username = opts.username,
          !.password = opts.password]

\* new SnooWrapped(opts): the private fields, or the error thrown
SnooWrapped(opts) ==
  IF ~opts.given \/ Falsy(opts.userAgent)
  THEN [NotConstructed EXCEPT !.thrown = "RequiredArgumentError"]
  ELSE IF /\ (Falsy(opts.accessToken) \/ ~IsString(opts.accessToken))
          /\ ( \/ opts.clientId = Undefined
               \/ opts.clientSecret = Undefined
               \/ ~IsString(opts.refreshToken) )
          /\ ( \/ opts.clientId = Undefined
               \/ opts.clientSecret = Undefined
               \/ opts.username = Undefined
               \/ opts.password = Undefined )
  THEN [NotConstructed EXCEPT !.thrown = "MissingCredentialsError"]
  ELSE [NotConstructed EXCEPT !.built = TRUE,
          !.userAgent = opts.userAgent,
          !.clientId = opts.clientId,
          !.clientSecret = opts.clientSecret,
          !.refreshToken = opts.refreshToken,
          !.accessToken = opts.accessToken,
          !.username = opts.username,
          !.password = opts.password]

\* what a caller may pass: every property absent or present, the tokens also
\* as an empty string and as a value that is no string
ConstructorOptions ==
  { NoArgs } \cup
  [given : {TRUE},
   userAgent : {Undefined, EmptyString, "snoowrapped"},
   accessToken : {Undefined, EmptyString, NotAString, "accessToken"},
   clientId : {Undefined, "clientId"},
   clientSecret : {Undefined, "clientSecret"},
   refreshToken : {Undefined, EmptyString, NotAString, "refreshToken"},
   username : {Undefined, "username"},
   password : {Undefined, "password"}]

\* new SnooWrapped(opts)
Construct(opts) ==
  /\ snooWrapped = NotConstructed
  /\ constructorArgs' = opts
  /\ snooWrapped' = SnooWrapped(opts)
  /\ UNCHANGED <<expand, contents, op>>
  /\ UNCHANGED <<listingVars, requestVars>>

NextConstruct == \E opts \in ConstructorOptions : Construct(opts)

SpecConstruct == InitExpand /\ [][NextConstruct]_vars

\* one complete set of credentials, in the words of the error message
CompleteCredentials(o) ==
  \/ IsString(o.accessToken) /\ o.accessToken # EmptyString
  \/ /\ o.clientId # Undefined
     /\ o.clientSecret # Undefined
     /\ IsString(o.refreshToken)
  \/ /\ o.clientId # Undefined
     /\ o.clientSecret # Undefined
     /\ o.username # Undefined
     /\ o.password # Undefined

-----------------------------------------------------------------------------
(* SnooWrapped: content objects (RedditContent, Comment, Submission,       *)
(* RedditUser) and the requests they make                                  *)

\* the objects held at a time: the one the client handed out and the ones
\* the calls on it returned
MaxObjects == 2

\* how often the clock is advanced, by half a token lifetime each time
MaxElapsed == 2
HalfLife == (ExpiresIn * 1000) \div 2

ContentTypes == {"Submission", "Comment", "RedditUser"}

\* the fullname getComment, getSubmission and getUser give the object
FullName(type) ==
  CASE type = "Submission" -> "t3_2np694"
    [] type = "Comment" -> "t1_c0b6xx0"
    [] OTHER -> "OmgImAlexis"

\* Object.keys(data).length === 0 ? a : b
bool(b) == IF b THEN "true" ELSE "false"

Toggles ==
  {"markNsfw", "unmarkNsfw", "lock", "unlock", "hide", "unhide",
   "markSpoiler", "unmarkSpoiler", "sticky", "unsticky"}

\* the object a toggle method builds from the response
toggled(o, method, empty) ==
  NewContent("Submission",
    CASE method = "markNsfw" -> [o.data EXCEPT !.nsfw = bool(empty)]
      [] method = "unmarkNsfw" -> [o.data EXCEPT !.nsfw = bool(~empty)]
      [] method \in {"lock", "unlock"} -> [o.data EXCEPT !.locked = bool(empty)]
      [] method \in {"hide", "unhide"} -> [o.data EXCEPT !.hidden = bool(empty)]
      [] method \in {"markSpoiler", "unmarkSpoiler"} ->
           [o.data EXCEPT !.spoiler = bool(empty)]
      [] OTHER -> [o.data EXCEPT !.stickied = bool(empty)])

\* _populate on a response with the content: a new object of the class
populated(o, nsfw) ==
  NewContent(o.type,
    IF o.type = "Submission"
    THEN [o.data EXCEPT !.title = "title", !.nsfw = bool(nsfw),
                        !.spoiler = "false", !.hidden = "false",
                        !.stickied = "false"]
    ELSE [o.data EXCEPT !.title = "title"])

\* a fetch that populates the object it was called on
fetched_inPlace(cs, target, nsfw) ==
  [cs EXCEPT ![target] = populated(cs[target], nsfw)]

\* the objects after a fetch: the new object is another one
fetched(cs, target, nsfw) == Append(cs, populated(cs[target], nsfw))

\* tokenExpiration?.getTime() || 0
expirationTime(c) == IF c.tokenExpiration = Undef THEN 0 ELSE c.tokenExpiration

\* the condition of _updateAccessToken: the token is missing or expired, and
\* a new one can be asked for
wantsToken(c, t) ==
  /\ Falsy(c.accessToken) \/ t > expirationTime(c)
  /\ ~Falsy(c.refreshToken) \/ (~Falsy(c.username) /\ ~Falsy(c.password))

\* _fetch begins: await this._updateAccessToken() either sends the token
\* request or returns the token of the client, and the API request is sent
beginFetch(o, c, t) ==
  IF wantsToken(c, t)
  THEN [o EXCEPT !.pc = "token",
                 !.grant = IF ~Falsy(c.refreshToken) THEN "refresh_token"
                           ELSE "password",
                 !.tokenRequests = @ + 1]
  ELSE [o EXCEPT !.pc = "api", !.token = c.accessToken]

\* the three credential sets of the constructor, and a token given together
\* with the means to refresh it
CredentialSets ==
  { [NoArgs EXCEPT !.given = TRUE, !.userAgent = "snoowrapped",
                   !.accessToken = "accessToken"],
    [NoArgs EXCEPT !.given = TRUE, !.userAgent = "snoowrapped",
                   !.clientId = "clientId", !.clientSecret = "clientSecret",
                   !.refreshToken = "refreshToken"],
    [NoArgs EXCEPT !.given = TRUE, !.userAgent = "snoowrapped",
                   !.clientId = "clientId", !.clientSecret = "clientSecret",
                   !.username = "username", !.password = "password"],
    [NoArgs EXCEPT !.given = TRUE, !.userAgent = "snoowrapped",
                   !.clientId = "clientId", !.clientSecret = "clientSecret",
                   !.accessToken = "accessToken",
                   !.refreshToken = "refreshToken"] }

\* sW.getSubmission(id), sW.getComment(id), sW.getUser(name)
Get(type) ==
  /\ snooWrapped.built
  /\ contents = <<>>
  /\ contents' = <<NewContent(type, NameOnly(FullName(type)))>>
  /\ UNCHANGED <<expand, constructorArgs, snooWrapped, op>>
  /\ UNCHANGED <<listingVars, requestVars>>

\* a method of a content object is called and _fetch begins
CallMethod(target, method) ==
  /\ op.pc \in {"idle", "fulfilled", "rejected"}
  /\ target \in 1..Len(contents)
  /\ Len(contents) < MaxObjects
  /\ method \in Toggles => contents[target].type = "Submission"
  /\ op' = beginFetch([NoOp EXCEPT !.method = method, !.target = target,
                                   !.stage = 1, !.before = contents[target],
                                   !.lastExpiry = op.lastExpiry],
                      snooWrapped, now)
  /\ UNCHANGED <<expand, constructorArgs, snooWrapped, contents>>
  /\ UNCHANGED <<listingVars, requestVars>>

AccessTokenAnswers == {"token", "invalid_grant", "failed"}

\* the token request is answered: with a token, with an OAuth error, or not
\* at all.  The token, its expiry and the scope are assigned to properties of
\* the object the getter `credentials` returned for that statement.
TokenAnswered(answer) ==
  /\ op.pc = "token"
  /\ op' = IF answer = "token"
           THEN [op EXCEPT !.pc = "api", !.token = "freshToken",
                           !.lastExpiry = now + ExpiresIn * 1000]
           ELSE [op EXCEPT !.pc = "rejected", !.error = "Error"]
  /\ UNCHANGED <<expand, constructorArgs, snooWrapped, contents>>
  /\ UNCHANGED <<listingVars, requestVars>>

\* the bodies reddit answers an API request with: {}, the content asked for,
\* a body of another kind, the 404 and 403 bodies, and no answer
ApiAnswers == {"empty", "content", "otherKind", "error404", "error403", "failed"}

\* the API request is answered
ApiAnswered(answer, nsfw) ==
  /\ op.pc = "api"
  /\ LET o == contents[op.target]
         reject(name) == [op EXCEPT !.pc = "rejected", !.data = answer,
                                    !.error = name]
     IN
     IF answer \in {"error404", "error403", "failed"}
     THEN op' = reject("Error") /\ UNCHANGED contents
     ELSE IF op.method \in Toggles
     THEN /\ contents' = Append(contents, toggled(o, op.method, answer = "empty"))
          /\ op' = [op EXCEPT !.pc = "fulfilled", !.data = answer,
                              !.value = Len(contents')]
     ELSE IF o.type = "Submission"
     THEN \* Submission._populate: a second _fetch, for the comments
          IF answer # "content"
          THEN op' = reject("TypeError") /\ UNCHANGED contents
          ELSE IF op.stage = 1
          THEN /\ op' = beginFetch([op EXCEPT !.stage = 2], snooWrapped, now)
               /\ UNCHANGED contents
          ELSE /\ contents' = fetched(contents, op.target, nsfw)
               /\ op' = [op EXCEPT !.pc = "fulfilled", !.data = answer,
                                   !.value = Len(contents')]
     ELSE \* Comment._populate, RedditUser._populate
          IF answer = "empty"
          THEN op' = reject("TypeError") /\ UNCHANGED contents
          ELSE IF answer = "otherKind"
          THEN /\ op' = [op EXCEPT !.pc = "fulfilled", !.data = answer,
                                   !.value = 0]
               /\ UNCHANGED contents
          ELSE /\ contents' = fetched(contents, op.target, nsfw)
               /\ op' = [op EXCEPT !.pc = "fulfilled", !.data = answer,
                                   !.value = Len(contents')]
  /\ UNCHANGED <<expand, constructorArgs, snooWrapped>>
  /\ UNCHANGED <<listingVars, requestVars>>

\* sW.updateAccessToken(accessToken, expiration, scope), called by the user
UpdateAccessToken ==
  /\ snooWrapped.built
  /\ snooWrapped.accessToken # "userToken"
  /\ snooWrapped' = [snooWrapped EXCEPT !.accessToken = "userToken",
                                        !.tokenExpiration = now + ExpiresIn * 1000,
                                        !.scope = "*"]
  /\ op' = [op EXCEPT !.lastExpiry = now + ExpiresIn * 1000]
  /\ UNCHANGED <<expand, constructorArgs, contents>>
  /\ UNCHANGED <<listingVars, requestVars>>

\* Date.now() advances
ClockAdvances ==
  /\ snooWrapped.built
  /\ now < StartTime + MaxElapsed * HalfLife
  /\ now' = now + HalfLife
  /\ UNCHANGED <<client, _config, reqs, lastDispatch>>
  /\ UNCHANGED <<listingVars, contentVars>>

NextWrapped ==
  \/ \E opts \in CredentialSets : Construct(opts)
  \/ \E type \in ContentTypes : Get(type)
  \/ \E target \in 1..MaxObjects, method \in Toggles \cup {"fetch"} :
        CallMethod(target, method)
  \/ \E answer \in AccessTokenAnswers : TokenAnswered(answer)
  \/ \E answer \in ApiAnswers, nsfw \in BOOLEAN : ApiAnswered(answer, nsfw)
  \/ UpdateAccessToken
  \/ ClockAdvances

SpecWrapped == InitExpand /\ [][NextWrapped]_vars

\* C23: fetch() on an unfetched content object, answered with the content,
\* fulfils with another object of the same class and name that is populated,
\* and the object it was called on is what it was before the call.
C23_FetchReturnsNewObject ==
  ( /\ op.method = "fetch"
    /\ op.pc = "fulfilled"
    /\ op.data = "content"
    /\ op.before.title = Undefined )
  => /\ op.value \in 1..Len(contents)
     /\ op.value # op.target
     /\ contents[op.value].type = op.before.type
     /\ contents[op.value].name = op.before.name
     /\ contents[op.value].title # Undefined
     /\ contents[op.target] = op.before
     /\ contents[op.target].title = Undefined

\* a Submission that was not fetched has been fetched, with both requests of
\* Submission._populate answered
C23_Witness ==
  /\ op.method = "fetch"
  /\ op.pc = "fulfilled"
  /\ op.data = "content"
  /\ op.before.title = Undefined
  /\ op.before.type = "Submission"
  /\ op.stage = 2

\* the methods of the toggle pairs that set the flag
Setters == {"markNsfw", "lock", "hide", "markSpoiler", "sticky"}

\* the property of a Submission a toggle method is about
FlagOf(o, method) ==
  CASE method \in {"markNsfw", "unmarkNsfw"} -> o.nsfw
    [] method \in {"lock", "unlock"} -> o.locked
    [] method \in {"hide", "unhide"} -> o.hidden
    [] method \in {"markSpoiler", "unmarkSpoiler"} -> o.spoiler
    [] OTHER -> o.stickied

\* C24: a toggle method of Submission that reddit answers with success ({})
\* returns a Submission whose flag is true after the setting method of the
\* pair and false after the unsetting one.
C24_TogglesSetAndUnset ==
  (op.method \in Toggles /\ op.pc = "fulfilled" /\ op.data = "empty")
  => FlagOf(contents[op.value], op.method) = bool(op.method \in Setters)

\* C25: once a token was obtained, no request made before its expiry sends a
\* token request.
C25_RefreshedTokenIsReused ==
  [][ (op'.pc = "token" /\ op.pc # "token")
      => ~(op.lastExpiry > 0 /\ now <= op.lastExpiry) ]_vars

-----------------------------------------------------------------------------
(* updateAccessToken and the errors of the pipeline *)

\* the fields of the requester that hold its authentication
AuthState(c) == <<c.accessToken, c.tokenExpiration, c.scope>>

\* the step of call i in which updateAccessToken runs
RunsUpdateAccessToken(i) ==
  /\ reqs[i].pc \in {"delayWait", "backoffWait"}
  /\ reqs'[i].pc \in {"tokenWait", "inflight"}

C27_TokenErrorRejectsWithCredentialError ==
  \A i \in Requests :
    reqs[i].tokenError => (reqs[i].pc = "rejected" /\ reqs[i].error = TokenError)

\* the cached token has at least MAX_TOKEN_LATENCY left
TokenFarFromExpiry ==
  /\ Truthy(client.accessToken)
  /\ client.tokenExpiration - now >= MAX_TOKEN_LATENCY

\* C28: a 401 that arrives while the cached token has at least
\* MAX_TOKEN_LATENCY left is propagated to the caller: the call is rejected
\* with it, nothing is dispatched again, and the cached token and expiry stay.
C28_FreshToken401Propagates ==
  [][\A i \in Requests :
       (Received401(i) /\ TokenFarFromExpiry)
         => /\ reqs'[i].pc = "rejected"
            /\ reqs'[i].error = StatusCodeError(401)
            /\ AuthState(client') = AuthState(client)]_vars

\* C29: the call that oauthRequest makes after a 401 for a token in its last
\* seconds carries the attempt number of the request that got the 401, and
\* waits for no backoff before it is sent; an idempotent call that met such a
\* 401 is rejected with a transient status only after maxRetryAttempts
\* responses with such a status.
C29_StaleRetryKeepsAttempt ==
  [][\A i \in Requests :
       /\ (Received401(i) /\ TokenNearExpiry /\ reqs'[i].pc # "rejected")
            => Attempts(reqs'[i]) = Attempts(reqs[i])
       /\ (reqs'[i].pc = "backoffWait" /\ reqs[i].pc # "backoffWait")
            => reqs[i].frames[Len(reqs[i].frames)].via # "auth"
       /\ ( /\ reqs'[i].pc = "rejected"
            /\ reqs'[i].method \in IDEMPOTENT_HTTP_VERBS
            /\ reqs'[i].reauths > 0
            /\ reqs'[i].error.statusCode \in createConfig.retryErrorCodes )
            => reqs'[i].transient >= _config.maxRetryAttempts]_vars

\* the backoff that call i begins to wait for in this step, in milliseconds
BackoffBegun(i) == reqs'[i].wake - now

BeginsBackoff(i) == reqs'[i].pc = "backoffWait" /\ reqs[i].pc # "backoffWait"

\* C30 (as stated): no backoff before the first attempt; before attempt k + 1
\* a backoff of 2^(k-1) seconds plus a jitter in [-0.3 s, 0.7 s).
C30_BackoffBeforeNextAttempt ==
  [][\A i \in Requests :
       /\ RunsUpdateAccessToken(i) /\ Attempts(reqs[i]) = 1
            => reqs[i].pc = "delayWait"
       /\ BeginsBackoff(i) =>
            LET k == Attempts(reqs[i]) - 1
            IN /\ k >= 1
               /\ BackoffBegun(i) - (2 ^ (k - 1)) * 1000 \in -300..699]_vars

\* C30 (amended): no backoff before the first attempt; before attempt k
\* (k >= 2) a backoff of 2^(k-1) seconds plus a jitter in [-0.3 s, 0.7 s).
C30_BackoffBeforeAttempt ==
  [][\A i \in Requests :
       /\ RunsUpdateAccessToken(i) /\ Attempts(reqs[i]) = 1
            => reqs[i].pc = "delayWait"
       /\ RunsUpdateAccessToken(i) /\ Attempts(reqs[i]) > 1
            => reqs[i].pc = "backoffWait"
       /\ BeginsBackoff(i) =>
            LET k == Attempts(reqs[i])
            IN /\ k >= 2
               /\ BackoffBegun(i) - (2 ^ (k - 1)) * 1000 \in -300..699]_vars

\* the third attempt of a request has been sent, after its backoff
C30_Witness ==
  \E i \in Requests :
    /\ reqs[i].pc = "inflight"
    /\ Attempts(reqs[i]) = 3
    /\ reqs[i].dispatches = 3
    /\ now >= StartTime + 2000 - 300 + 4000 - 300

-----------------------------------------------------------------------------
(* The order of the steps of an attempt *)

\* the rate window of requester c is exhausted at time t
WindowExhausted(c, t) ==
  c.ratelimitRemaining < 1 /\ t < c.ratelimitExpiration

\* call i begins an attempt in this step: oauthRequest is called, by the
\* user or by one of its own catch handlers
BeginsAttempt(i) ==
  /\ reqs[i].pc \in {"new", "inflight"}
  /\ reqs'[i].pc \in {"ratelimitWait", "delayWait"}

\* C31: every attempt of oauthRequest (the first, a retry after a transient
\* error, the retry after a stale token) runs rate-limit gate, slot
\* reservation, backoff wait, token check, dispatch, in this order: a wait is
\* begun only by the step before it, the token check is made when the waits of
\* the attempt are over, and a slot is reserved (and so a request sent) only
\* after the gate has been passed in this attempt.
C31_AttemptStepsInOrder ==
  [][\A i \in Requests :
       LET r == reqs[i]
           r2 == reqs'[i]
       IN /\ (r2.pc = "ratelimitWait" /\ r.pc # "ratelimitWait") =>
               /\ BeginsAttempt(i)
               /\ WindowExhausted(client', now)
               /\ r2.wake = client'.ratelimitExpiration
          /\ (r2.pc = "delayWait" /\ r.pc # "delayWait") =>
               \/ r.pc = "ratelimitWait" /\ now >= r.gateUntil
               \/ BeginsAttempt(i) /\ ~WindowExhausted(client', now)
          /\ (r2.pc = "backoffWait" /\ r.pc # "backoffWait") =>
               r.pc = "delayWait" /\ now >= r.wake /\ Attempts(r) > 1
          /\ (r2.pc = "tokenWait" /\ r.pc # "tokenWait") =>
               /\ r.pc \in {"delayWait", "backoffWait"}
               /\ now >= r.wake
               /\ r.pc = "delayWait" => Attempts(r) = 1
          /\ (r2.pc = "inflight" /\ r.pc # "inflight") =>
               /\ r.pc \in {"delayWait", "backoffWait", "tokenWait"}
               /\ r.pc # "tokenWait" =>
                    /\ now >= r.wake
                    /\ r.pc = "delayWait" => Attempts(r) = 1
          /\ r2.dispatches > r.dispatches =>
               r2.pc = "inflight" /\ r.pc # "inflight"
          /\ Len(r2.frames) > Len(r.frames) =>
               r2.pc \in {"ratelimitWait", "delayWait", "rejected"}
    ]_vars

\* a request is in the transport for the third time: after a retry of a
\* transient error and after the retry with a fresh token
C31_Witness ==
  \E i \in Requests :
    /\ reqs[i].pc = "inflight"
    /\ reqs[i].dispatches >= 3
    /\ reqs[i].reauths > 0
    /\ \E k \in 1..Len(reqs[i].frames) : reqs[i].frames[k].via = "retry"

-----------------------------------------------------------------------------
(* The slots of _awaitRequestDelay *)

\* call i reserves a slot in this step; the slot is the instant its delay
\* ends
Reserves(i) == reqs'[i].pc = "delayWait" /\ reqs[i].pc # "delayWait"

\* the slots of the other calls that are waiting for theirs
PendingSlots(i) ==
  { reqs[j].wake : j \in { k \in Requests : k # i /\ reqs[k].pc = "delayWait" } }

\* a reservation takes the slot max(now, _nextRequestTimestamp) and moves
\* _nextRequestTimestamp requestDelay behind it, so that the slot is
\* requestDelay after the latest slot still waited for; nothing else writes
\* _nextRequestTimestamp and it never decreases
SlotsAreSpaced(i) ==
  /\ Reserves(i) =>
       /\ reqs'[i].wake = Max(now, client._nextRequestTimestamp)
       /\ client'._nextRequestTimestamp = reqs'[i].wake + _config.requestDelay
       /\ \A s \in PendingSlots(i) : reqs'[i].wake >= s + _config.requestDelay
       /\ PendingSlots(i) # {} =>
            \E s \in PendingSlots(i) : reqs'[i].wake = s + _config.requestDelay
  /\ client'._nextRequestTimestamp >= client._nextRequestTimestamp
  /\ (\A j \in Requests : ~Reserves(j)) =>
       client'._nextRequestTimestamp = client._nextRequestTimestamp

\* a burst of GET calls on a requester that holds an access token and no
\* refresh token (no token request is made), under the default
\* retryErrorCodes
InitBurst ==
  /\ InitConcurrent
  /\ client.refreshToken = Null

NextBurst ==
  \/ OauthRequestCall("get")
  \/ \E i \in Requests : LaterCall(i, "get")
  \/ \E i \in Requests : RatelimitElapsed(i)
  \/ \E i \in Requests : RequestDelayElapsed(i)
  \/ \E i \in Requests : Response(i)
  \/ TimePasses

SpecBurst == InitBurst /\ [][NextBurst]_vars

\* C32 (as stated): the slots reserved by concurrent calls are spaced exactly
\* requestDelay apart, _nextRequestTimestamp never decreases, and no two
\* calls are assigned the same slot, whatever requestDelay is.
C32_SlotsAreDistinct ==
  [][\A i \in Requests :
       /\ SlotsAreSpaced(i)
       /\ Reserves(i) => reqs'[i].wake \notin PendingSlots(i)]_vars

\* C32 (amended): the slots reserved by concurrent calls are spaced exactly
\* requestDelay apart and _nextRequestTimestamp never decreases; no two calls
\* are assigned the same slot when requestDelay > 0.
C32_SlotsAreDistinctUnderDelay ==
  [][\A i \in Requests :
       /\ SlotsAreSpaced(i)
       /\ (Reserves(i) /\ _config.requestDelay > 0) =>
            reqs'[i].wake \notin PendingSlots(i)]_vars

\* two calls made at the same instant wait for slots requestDelay apart
C32_Witness ==
  /\ now = StartTime
  /\ _config.requestDelay = RequestDelayMs
  /\ reqs[1].pc = "delayWait" /\ reqs[1].wake = StartTime
  /\ reqs[2].pc = "delayWait" /\ reqs[2].wake = StartTime + RequestDelayMs
  /\ client._nextRequestTimestamp = StartTime + 2 * RequestDelayMs

-----------------------------------------------------------------------------
(* The rate window at the dispatch *)

\* call i is handed to the transport in this step
Dispatches(i) == reqs'[i].dispatches > reqs[i].dispatches

\* C33: with continueAfterRatelimitError = false no request is handed to the
\* transport at an instant at which the rate window of the requester is
\* exhausted (ratelimitRemaining < 1 and now < ratelimitExpiration), also
\* when the response of another call has updated the window since the gate
\* was checked for this one.
C33_NoDispatchInExhaustedWindow ==
  [][\A i \in Requests :
       (Dispatches(i) /\ ~_config.continueAfterRatelimitError) =>
         ~WindowExhausted(client', now)]_vars

-----------------------------------------------------------------------------
(* The cursors of a regular Listing *)

\* the step in which the page that was asked for is merged
MergesPage == pc = "awaitPage" /\ pc' = "fetchMore"

\* the step in which a page is asked for
RequestsPage == pc = "fetchMore" /\ pc' = "awaitPage"

\* the items the merge starts from
MergedOnto == IF options.append THEN heap.listing[thisRef].items ELSE <<>>

-----------------------------------------------------------------------------
(* The child ids of a stub *)

\* how many ids of the caller's stub the running call is to drain
Drained == Max(0, Min(callOptions.amount, Len(snapshot.children)))

\* the stub of the Listing the call works on holds a tail of the ids the
\* caller's stub held, the ids requested are a head of them, each once; and
\* the Listing returned holds the ids behind the first min(amount, N), which
\* are the ids that were requested
StubIsDrained ==
  /\ IsSuffix(ChildrenOf(heap, thisRef), snapshot.children)
  /\ IsPrefix(Flatten(chunkReq), snapshot.children)
  /\ pc = "done" =>
       /\ Result.children = SliceFrom(snapshot.children, Drained)
       /\ Flatten(chunkReq) = Slice(snapshot.children, 0, Drained)

-----------------------------------------------------------------------------
(* The lookahead buffer and the stub *)

\* the call was made on a comment Listing whose buffer holds fewer items than
\* were asked for and whose stub still has child ids
BufferShortOfAmount ==
  /\ pc # "idle"
  /\ snapshot.hasLookahead /\ Len(snapshot.lookahead) < callOptions.amount
  /\ snapshot.hasMore /\ snapshot.children # <<>>

-----------------------------------------------------------------------------
(* A request that fails in the middle of a call *)

\* a request of the running call fails (or its response makes a handler
\* throw) in this step
RequestFails ==
  pc \in {"awaitPage", "awaitFlat", "awaitTree"} /\ pc' = "rejected"

\* the Listings the caller holds
Held(h) == [s \in {"root", "result"} |-> Deep(h, s)]

-----------------------------------------------------------------------------
(* Calls that find the token missing or expired at the same time *)

\* GET calls on a requester that has a refresh token and no access token, or
\* one that is about to expire, under the default configuration but for
\* requestDelay (the gate of _awaitRatelimit then never delays)
InitRefresh ==
  /\ InitConcurrent
  /\ client.refreshToken # Null
  /\ client.accessToken = Null \/ client.tokenExpiration = StartTime + TokenLifeLeft
  /\ client.ratelimitExpiration = Null
  /\ ~_config.continueAfterRatelimitError

NextRefresh ==
  \/ OauthRequestCall("get")
  \/ \E i \in Requests : LaterCall(i, "get")
  \/ \E i \in Requests : RequestDelayElapsed(i)
  \/ \E i \in Requests : TokenResponse(i)
  \/ \E i \in Requests : TokenRequestFails(i)
  \/ \E i \in Requests : Response(i)
  \/ TimePasses

SpecRefresh == InitRefresh /\ [][NextRefresh]_vars

\* the token and the expiration a refresh answered at time t stores
Refreshed(t) ==
  { <<tokenInfo.access_token, t + tokenInfo.expires_in * 1000>> :
      tokenInfo \in { a \in TokenAnswers : ~a.error } }

\* C38: every call that finds the token missing or expired sends a token
\* request of its own, also while the token request of another call is
\* pending; a call is sent with the token its own token response brought,
\* never with a missing or an expired one; and when the calls that refreshed
\* have all been answered, the requester holds the token and the expiration
\* of one of their refreshes.
C38_EachCallRefreshes ==
  [][\A i \in Requests :
       /\ ( /\ RunsUpdateAccessToken(i)
            /\ client.accessToken = Null \/ now > client.tokenExpiration )
            => /\ reqs'[i].pc = "tokenWait"
               /\ reqs'[i].tokenRequests = reqs[i].tokenRequests + 1
       /\ Dispatches(i) =>
            /\ reqs'[i].bearer # Null
            /\ reqs'[i].bearerExp >= now
            /\ reqs[i].pc = "tokenWait" =>
                 /\ <<reqs'[i].bearer, reqs'[i].bearerExp>> \in Refreshed(now)
                 /\ <<client'.accessToken, client'.tokenExpiration>>
                      \in Refreshed(now)
       /\ (\A j \in Requests :
             reqs'[j].pc = "fulfilled" /\ reqs'[j].tokenRequests > 0) =>
            \E j \in Requests :
              /\ client'.accessToken = reqs'[j].bearer
              /\ client'.tokenExpiration = reqs'[j].bearerExp
    ]_vars

\* a call is in the transport with the token of its own refresh while the
\* token request of the other call, sent before that refresh was answered,
\* is still pending
C38_Witness ==
  /\ reqs[1].pc = "inflight" /\ reqs[1].tokenRequests = 1
  /\ reqs[2].pc = "tokenWait" /\ reqs[2].tokenRequests = 1
  /\ <<reqs[1].bearer, reqs[1].bearerExp>> \in Refreshed(now)

-----------------------------------------------------------------------------
(* buildRepliesTree *)

\* the things of the last api/morechildren response
LastThings == chunkRes[Len(chunkRes)]

\* the positions, in response order, of the things of a kind whose parent is
\* the thing at position p
ChildrenAt(things, p, kind) ==
  { c \in 1..Len(things) :
      /\ things[c].name = kind
      /\ things[p].name = "Comment"
      /\ things[c].parent_id = things[p].id }

RECURSIVE IdsAt(_, _, _)
\* the ids of the things at the positions of set, in response order
IdsAt(things, set, from) ==
  IF from > Len(things) THEN <<>>
  ELSE (IF from \in set THEN <<things[from].id>> ELSE <<>>)
         \o IdsAt(things, set, from + 1)

\* C39: buildRepliesTree threads a morechildren response: the comments whose
\* parent is a comment of the same response are the items of the parent's
\* replies Listing, in response order, and a More whose parent is a comment
\* of the response is the stub of the parent's replies, not an item.
C39_RepliesAreAttached ==
  (pc = "awaitTree" \/ pc = "rejected") /\ chunkRes # <<>> =>
    LET things == LastThings
        out == buildRepliesTree(things)
    IN \A p \in 1..Len(things) :
         /\ ChildrenAt(things, p, "Comment") \cup ChildrenAt(things, p, "More") # {}
              => ~out.threw
         /\ out.replies[p] = IdsAt(things, ChildrenAt(things, p, "Comment"), 1)
         /\ \A c \in ChildrenAt(things, p, "More") : out.stub[p] = things[c].id

-----------------------------------------------------------------------------
(* The token after a refresh that failed *)

\* the token request of call i is answered with an OAuth error in this step
RefreshFails(i) ==
  /\ reqs[i].pc = "tokenWait"
  /\ reqs'[i].tokenError

\* C40: a token response that carries an OAuth error leaves the requester
\* without an access token, whatever token it had cached; and a call that
\* comes to its token check without an access token sends a token request,
\* it is not dispatched.
C40_FailedRefreshDropsToken ==
  [][\A i \in Requests :
       /\ RefreshFails(i) =>
            /\ ~Truthy(client'.accessToken)
            /\ client'.accessToken \notin {client.accessToken} \ {Null, Undef}
            /\ reqs'[i].pc = "rejected"
            /\ reqs'[i].dispatches = reqs[i].dispatches
       /\ (RunsUpdateAccessToken(i) /\ ~Truthy(client.accessToken)) =>
            /\ reqs'[i].pc = "tokenWait"
            /\ reqs'[i].dispatches = reqs[i].dispatches
    ]_vars

\* the refresh of one call has failed after the cached token had expired,
\* and the next call has sent a token request of its own
C40_Witness ==
  /\ reqs[1].pc = "rejected" /\ reqs[1].tokenError
  /\ client.accessToken = Undef
  /\ now > StartTime + TokenLifeLeft
  /\ reqs[2].pc = "tokenWait"
  /\ reqs[2].tokenRequests = 1

====
